---- MODULE Spec2Model ----
(***************************************************************************)
(* Verification model of the unsubscribe agent (browser-controller.ts,     *)
(* unsubscribe-agent.ts), of POST /api/unsubscribe, and of the AI batch    *)
(* processor (processEmailsForUser, categorizeEmail).                      *)
(*                                                                         *)
(* Texts are sequences of words; a phrase is a sequence of words, and      *)
(* String.includes is the occurrence of the phrase as a contiguous run of  *)
(* the text. Confidences are hundredths (0.5 is 50). Time is milliseconds. *)
(***************************************************************************)
EXTENDS Integers, Sequences, FiniteSets, TLC

\* ------------------------------------------------------------------ bounds

\* Longest text the verifier is given, in fragments of Fragments.
MaxFragments == 2

\* Longest batch handed to bulkUnsubscribe.
MaxUrls == 2

\* Emails of the user in the store.
MaxEmails == 2

\* Messages in the inbox of the first email account.
MaxMessages == 2

\* Calls made on one browser controller.
MaxCalls == 4

\* Bracketed entries of a List-Unsubscribe header, and hrefs of an HTML body.
MaxLinks == 2

\* Entries of formFieldsToFill in one page analysis.
MaxFields == 2

\* Text patterns handed to one call of findAndClickByText.
MaxPatterns == 2

\* ------------------------------------------------------- values and helpers

\* JavaScript values are written as strings: "true", "false", "undefined"
\* (a property that is absent), "null".
Undefined == "undefined"

\* Truthiness of the values above.
Truthy(v) == v \notin {"false", "undefined", "null", ""}

Range(s) == {s[k] : k \in 1..Len(s)}

\* String.prototype.includes on word sequences.
Includes(text, phrase) ==
    \E k \in 0..(Len(text) - Len(phrase)) :
        SubSeq(text, k + 1, k + Len(phrase)) = phrase

\* String.prototype.toLowerCase, word by word, over the words that occur in
\* the texts of the model.
LowerWord(w) ==
    CASE w = "You" -> "you"
      [] w = "Successfully" -> "successfully"
      [] w = "UNSUBSCRIBED" -> "unsubscribed"
      [] w = "Email" -> "email"
      [] w = "Link" -> "link"
      [] w = "Our" -> "our"
      [] w = "An" -> "an"
      [] w = "Please" -> "please"
      [] OTHER -> w

\* The words of a phrase written out as one string.
RECURSIVE JoinWords(_)
JoinWords(words) ==
    IF words = <<>> THEN ""
    ELSE IF Len(words) = 1 THEN words[1]
    ELSE words[1] \o " " \o JoinWords(Tail(words))

toLowerCase(text) == [k \in 1..Len(text) |-> LowerWord(text[k])]

\* ------------------------------------------- result verifier: heuristic tier

successPatterns ==
    << <<"successfully", "unsubscribed">>,
       <<"you", "have", "been", "unsubscribed">>,
       <<"unsubscribe", "confirmed">>,
       <<"removed", "from">>,
       <<"you", "have", "been", "removed">>,
       <<"preferences", "updated">>,
       <<"subscription", "cancelled">>,
       <<"opt-out", "successful">>,
       <<"you", "will", "no", "longer", "receive">> >>

alreadyDonePatterns ==
    << <<"already", "unsubscribed">>,
       <<"not", "subscribed">>,
       <<"email", "not", "found">>,
       <<"not", "on", "our", "list">>,
       <<"no", "subscription", "found">> >>

errorPatterns ==
    << <<"link", "expired">>,
       <<"link", "has", "expired">>,
       <<"invalid", "token">>,
       <<"token", "expired">>,
       <<"error", "occurred">>,
       <<"something", "went", "wrong">>,
       <<"unable", "to", "process">>,
       <<"request", "failed">> >>

\* The for loop over one pattern list: the index of the first pattern the
\* content includes, or 0 when the loop runs to its end.
RECURSIVE FirstMatch(_, _, _)
FirstMatch(content, patterns, k) ==
    IF k > Len(patterns) THEN 0
    ELSE IF Includes(content, patterns[k]) THEN k
    ELSE FirstMatch(content, patterns, k + 1)

\* The order in which the three loops run.
HeuristicOrderErrorFirst == <<"error", "success", "already">>
HeuristicOrder == <<"success", "already", "error">>

PatternsOf(bucket) ==
    CASE bucket = "success" -> successPatterns
      [] bucket = "already" -> alreadyDonePatterns
      [] bucket = "error" -> errorPatterns

HeuristicVerdict(bucket, k) ==
    CASE bucket = "success" ->
           [success |-> "true", reason |-> "Successfully unsubscribed",
            status |-> "unsubscribed"]
      [] bucket = "already" ->
           [success |-> "true",
            reason |-> "Already unsubscribed or not subscribed",
            status |-> "already_unsubscribed"]
      [] bucket = "error" ->
           [success |-> "false",
            reason |-> "Unsubscribe failed - " \o JoinWords(errorPatterns[k]),
            status |-> "error"]

HeuristicUnknown ==
    [success |-> "false", reason |-> "Could not verify unsubscribe result",
     status |-> "unknown"]

RECURSIVE HeuristicScan(_, _)
HeuristicScan(lowerContent, b) ==
    IF b > Len(HeuristicOrder) THEN HeuristicUnknown
    ELSE LET k == FirstMatch(lowerContent, PatternsOf(HeuristicOrder[b]), 1)
         IN  IF k > 0 THEN HeuristicVerdict(HeuristicOrder[b], k)
             ELSE HeuristicScan(lowerContent, b + 1)

analyzeUnsubscribeResultWithHeuristics(pageContent) ==
    HeuristicScan(toLowerCase(pageContent), 1)

\* ------------------------------------------------------ LLM response texts

\* A streamed response is a sequence of chunks; a chunk carries a text (a
\* sequence of tokens) or none. Tokens: the markdown fences, white space,
\* prose, and a complete JSON document with its parsed value.
FenceJson == [kind |-> "fence_json"]
Fence == [kind |-> "fence"]
NL == [kind |-> "nl"]
Prose == [kind |-> "prose"]
Json(v) == [kind |-> "json", value |-> v]

TextChunk(t) == [hasText |-> TRUE, text |-> t]
UsageChunk == [hasText |-> FALSE, text |-> <<>>]

\* chunks.map((c) => c.text || '').join('')
RECURSIVE JoinChunks(_)
JoinChunks(chunks) ==
    IF chunks = <<>> THEN <<>>
    ELSE (IF Head(chunks).hasText THEN Head(chunks).text ELSE <<>>)
         \o JoinChunks(Tail(chunks))

\* text.replace(/<fence>\n?/g, ''): every fence token goes, with the newline
\* that directly follows it.
RECURSIVE StripFence(_, _)
StripFence(text, fence) ==
    IF text = <<>> THEN <<>>
    ELSE IF Head(text) = fence
         THEN IF Len(text) >= 2 /\ text[2] = NL
              THEN StripFence(SubSeq(text, 3, Len(text)), fence)
              ELSE StripFence(Tail(text), fence)
         ELSE <<Head(text)>> \o StripFence(Tail(text), fence)

\* String.prototype.trim
RECURSIVE Trim(_)
Trim(text) ==
    IF text = <<>> THEN <<>>
    ELSE IF Head(text) = NL THEN Trim(Tail(text))
    ELSE IF text[Len(text)] = NL THEN Trim(SubSeq(text, 1, Len(text) - 1))
    ELSE text

CleanResponse(text) == Trim(StripFence(StripFence(text, FenceJson), Fence))

\* JSON.parse: the value of the one JSON document the text consists of; a
\* SyntaxError for the empty text and for any other text.
JSONParse(text) ==
    IF Len(text) = 1 /\ text[1].kind = "json"
    THEN [ok |-> TRUE, value |-> text[1].value]
    ELSE [ok |-> FALSE, value |-> [type |-> "none"]]

\* Outcomes of genai.models.generateContentStream and of reading the stream.
CallThrows == [kind |-> "throws", chunks |-> <<>>]
Stream(chunks) == [kind |-> "stream", chunks |-> chunks]

\* The ways a JSON document v reaches the caller, and the ways none does.
ResponsesWith(v) ==
    { Stream(<<TextChunk(<<Json(v)>>)>>),
      Stream(<<TextChunk(<<FenceJson, NL, Json(v), NL, Fence>>)>>),
      Stream(<<TextChunk(<<FenceJson, NL>>), UsageChunk,
               TextChunk(<<Json(v), NL, Fence, NL>>)>>) }

FailedResponses ==
    { CallThrows,
      Stream(<<>>),
      Stream(<<UsageChunk>>),
      Stream(<<TextChunk(<<Fence, NL, Fence>>)>>),
      Stream(<<TextChunk(<<Prose>>)>>) }

\* JSON values. Reading a property of null throws a TypeError; reading a
\* property a value does not have gives undefined.
JsonNull == [type |-> "null"]
JsonArray == [type |-> "array"]

Prop(v, f) == IF v.type = "object" /\ f \in DOMAIN v THEN v[f] ELSE Undefined

\* --------------------------------------------- result verifier: both tiers

VerdictStatuses ==
    {"unsubscribed", "already_unsubscribed", "error", "unknown",
     "requires_action"}

JsonVerdict(success, status) ==
    [type |-> "object", success |-> success, status |-> status,
     reason |-> "llm reason"]

\* The guard of the early return.
HeuristicIsDefinitiveMutant(h) == h.success = "true"
HeuristicIsDefinitive(h) == h.status # "unknown"

\* The catch block of analyzeUnsubscribeResult.
OnLlmFailureMutant(h) ==
    [type |-> "object", success |-> "true", status |-> "unsubscribed",
     reason |-> "Successfully unsubscribed"]
OnLlmFailure(h) == [type |-> "object"] @@ h

\* The try block: the parsed response, whatever JSON value it is.
LlmTier(response, h) ==
    IF response.kind = "throws" THEN OnLlmFailure(h)
    ELSE LET parsed == JSONParse(CleanResponse(JoinChunks(response.chunks)))
         IN  IF parsed.ok THEN parsed.value ELSE OnLlmFailure(h)

analyzeUnsubscribeResult(bodyText, response) ==
    LET h == analyzeUnsubscribeResultWithHeuristics(bodyText)
    IN  IF HeuristicIsDefinitive(h)
        THEN [verdict |-> [type |-> "object"] @@ h, heuristic |-> h,
              llmCalls |-> 0]
        ELSE [verdict |-> LlmTier(response, h), heuristic |-> h,
              llmCalls |-> 1]

\* ------------------------------------------------------------------- state

VARIABLES
    \* bulkUnsubscribe and POST /api/unsubscribe
    urls,       \* the batch
    results,    \* the results array of bulkUnsubscribe
    idx,        \* position of the for loop in urls (1-based)
    pc,         \* where the batch is
    browser,    \* BrowserController.browser is not null
    context,    \* BrowserController.context is not null
    page,       \* BrowserController.page is not null
    procs,      \* browser processes launched and not closed
    sinceClose, \* ms elapsed since the last close() ended
    closes,     \* close() calls that ended
    att,        \* the locals of the running unsubscribe() call
    navFailed,  \* positions whose navigation failed
    response,   \* what POST /api/unsubscribe answered
    \* result verifier on its own
    vPc, vText, vResponse, vOut,
    \* page intent analyzer on its own
    aPc, aInput, aResponse, aPlan,
    \* AI batch processor
    emails,     \* the Email rows of the user, by id
    categories, \* the ids of the user's Category rows
    configured, \* GEMINI_API_KEY is set
    limit,      \* options.limit
    cPc,        \* where processEmailsForUser is
    cQueue,     \* the rows findMany returned, not yet processed
    cStats,     \* ProcessingStats of the run
    cLast,      \* what the loop did with the email it processed last
    \* email sync
    accounts,   \* the EmailAccount rows: what createGmailClient finds
    mailbox,    \* per account, the ids of the messages in its inbox
    store,      \* per gmailId, the number of Email rows that carry it
    sync,       \* per run of syncEmailsForAccount, its locals
    sOut,       \* what the caller of the runs returned
    \* browser controller driven on its own
    ctl,        \* the calls made on one BrowserController, and the last one
    \* unsubscribe link of an ingested message
    ext,        \* the message processMessage got, and what it stored
    \* category validation
    cat,        \* the body handed to a category schema, and the outcome
    \* form fields of fill_form on their own
    fld,        \* the analysis and address, and the calls made on the browser
    \* findAndClickByText on its own
    txt         \* what the page does per pattern and type, and the outcome

batchVars ==
    <<urls, results, idx, pc, browser, context, page, procs, sinceClose,
      closes, att, navFailed, response>>
verifierVars == <<vPc, vText, vResponse, vOut>>
analyzerVars == <<aPc, aInput, aResponse, aPlan>>
classifyVars ==
    <<emails, categories, configured, limit, cPc, cQueue, cStats, cLast>>
syncVars == <<accounts, mailbox, store, sync, sOut>>
controllerVars == <<ctl>>
extractVars == <<ext>>
helperVars == <<cat, fld, txt>>
vars ==
    <<batchVars, verifierVars, analyzerVars, classifyVars, syncVars,
      controllerVars, extractVars, helperVars>>
\* The state of the components a batch does not touch.
otherVars ==
    <<verifierVars, analyzerVars, classifyVars, syncVars, controllerVars,
      extractVars, helperVars>>

\* ------------------------------------------------- result verifier, alone

Fragments ==
    { <<"You", "have", "been">>,
      <<"Successfully", "UNSUBSCRIBED">>,
      <<"unsubscribed">>,
      <<"removed">>,
      <<"from", "our", "list">>,
      <<"already", "unsubscribed">>,
      <<"Email", "not", "found">>,
      <<"not", "subscribed">>,
      <<"Link", "expired">>,
      <<"An", "error", "occurred">>,
      <<"something", "went", "wrong">>,
      <<"Our", "system", "could", "not", "find", "your", "subscription">>,
      <<"Please", "confirm", "your", "email">> }

RECURSIVE TextsOf(_)
TextsOf(n) ==
    IF n = 0 THEN {<<>>}
    ELSE LET shorter == TextsOf(n - 1)
         IN  shorter \cup {t \o f : t \in shorter, f \in Fragments}

Texts == TextsOf(MaxFragments)

VerdictValues ==
    {JsonNull, JsonArray}
    \cup {JsonVerdict(su, st) :
            su \in {"true", "false", Undefined},
            st \in VerdictStatuses \cup {"bogus", Undefined}}

VerdictResponses ==
    FailedResponses \cup UNION {ResponsesWith(v) : v \in VerdictValues}

NoResponse == [kind |-> "none", chunks |-> <<>>]
NoOut == [verdict |-> [type |-> "none"], heuristic |-> HeuristicUnknown,
          llmCalls |-> 0]

VerifierInit ==
    /\ vPc = "ready"
    /\ vText \in Texts
    /\ vResponse = NoResponse
    /\ vOut = NoOut

VerifierIdle ==
    /\ vPc = "off"
    /\ vText = <<>>
    /\ vResponse = NoResponse
    /\ vOut = NoOut

\* One call of analyzeUnsubscribeResult(bodyText).
VAnalyze ==
    /\ vPc = "ready"
    /\ \E r \in VerdictResponses :
         LET out == analyzeUnsubscribeResult(vText, r)
         IN  /\ vOut' = out
             /\ vResponse' = IF out.llmCalls > 0 THEN r ELSE NoResponse
    /\ vPc' = "returned"
    /\ UNCHANGED <<vText, batchVars, controllerVars, extractVars, helperVars, syncVars, analyzerVars, classifyVars>>

\* ------------------------------------------------------- page intent analyzer

DefaultPlan ==
    [type |-> "object", hasUnsubscribeButton |-> "true", hasForm |-> "false",
     requiresEmail |-> "false", nextAction |-> "click_button"]

JsonPlan(nextAction, buttonSelector, submitButtonSelector) ==
    [type |-> "object", hasUnsubscribeButton |-> "true", hasForm |-> "true",
     requiresEmail |-> "false", nextAction |-> nextAction,
     buttonSelector |-> buttonSelector,
     submitButtonSelector |-> submitButtonSelector]

\* The catch block of analyzePageWithAI.
OnAnalysisFailureMutant == [type |-> "object", nextAction |-> "unknown"]
OnAnalysisFailure == DefaultPlan

\* The try block of analyzePageWithAI: the parsed response, unvalidated.
analyzePageWithAI(r) ==
    IF r.kind = "throws" THEN OnAnalysisFailure
    ELSE LET parsed == JSONParse(CleanResponse(JoinChunks(r.chunks)))
         IN  IF parsed.ok THEN parsed.value ELSE OnAnalysisFailure

\* ------------------------------------------------------------ action executor

\* A page, as the click helpers see it: the selectors findAndClickButton
\* clicks with success, the kind of element whose text holds the first
\* button text ("none" when there is none), and whether the wait for the
\* load state after a click on that element resolves.
Page(clickable, textHit, textWait) ==
    [clickable |-> clickable, textHit |-> textHit, textWait |-> textWait]

findAndClickButton(pg, selector) == selector \in pg.clickable

ButtonTexts == <<"unsubscribe", "confirm", "yes", "opt out", "remove", "submit">>
DefaultElementTypes == <<"button", "a", "input[type=submit]">>
FormElementTypes == <<"button", "input[type=submit]">>

\* The loops of findAndClickByText from the k-th (pattern, element type)
\* pair on. probe[<<pattern, type>>] is what the page does for that pair:
\* "none" (no element, or one that is not visible), "click_throws",
\* "wait_timeout" (the click is made, waitForLoadState rejects), "ok".
\* Every exception is caught and the loops go on.
RECURSIVE ByTextLoop(_, _, _, _, _)
ByTextLoop(textPatterns, elementTypes, probe, k, clicked) ==
    IF k > Len(textPatterns) * Len(elementTypes)
    THEN [returned |-> FALSE, clicked |-> clicked]
    ELSE LET pair == <<textPatterns[((k - 1) \div Len(elementTypes)) + 1],
                       elementTypes[((k - 1) % Len(elementTypes)) + 1]>>
         IN  CASE probe[pair] = "ok" ->
                    [returned |-> TRUE, clicked |-> Append(clicked, pair)]
               [] probe[pair] = "wait_timeout" ->
                    ByTextLoop(textPatterns, elementTypes, probe, k + 1,
                               Append(clicked, pair))
               [] OTHER ->
                    ByTextLoop(textPatterns, elementTypes, probe, k + 1,
                               clicked)

\* BrowserController.findAndClickByText(textPatterns, elementTypes): what it
\* returns and the elements it clicked, in order.
findAndClickByText(textPatterns, elementTypes, probe) ==
    ByTextLoop(textPatterns, elementTypes, probe, 1, <<>>)

\* findAndClickByText(buttonTexts, elementTypes) on a page of the batch.
ClickTextOn(pg, elementTypes) ==
    LET probe == [pair \in Range(ButtonTexts) \X Range(elementTypes) |->
                    IF pair[1] = ButtonTexts[1] /\ pair[2] = pg.textHit
                    THEN pg.textWait ELSE "none"]
        call == findAndClickByText(ButtonTexts, elementTypes, probe)
    IN  [clicked |-> call.returned, clicks |-> Len(call.clicked)]

GenericSelectors ==
    <<"button[type=submit]", "input[type=submit]", "a.unsubscribe",
      "button.unsubscribe", "#unsubscribe", ".unsubscribe-button",
      "[data-action=unsubscribe]">>

\* [analysis.buttonSelector, ...].filter(Boolean)
buttonSelectors(plan) ==
    (IF Truthy(Prop(plan, "buttonSelector"))
     THEN <<Prop(plan, "buttonSelector")>> ELSE <<>>) \o GenericSelectors

\* for (const selector of buttonSelectors) { clicked = ...; if (clicked) break }
RECURSIVE ClickLoopMutant(_, _, _, _)
ClickLoopMutant(pg, selectors, k, tried) ==
    IF k > Len(selectors)
    THEN [clicked |-> \E j \in 1..Len(selectors) :
                         findAndClickButton(pg, selectors[j]),
          tried |-> tried,
          clicks |-> Cardinality({j \in 1..Len(selectors) :
                                    findAndClickButton(pg, selectors[j])})]
    ELSE ClickLoopMutant(pg, selectors, k + 1, Append(tried, selectors[k]))
RECURSIVE ClickLoop(_, _, _, _)
ClickLoop(pg, selectors, k, tried) ==
    IF k > Len(selectors)
    THEN [clicked |-> FALSE, tried |-> tried, clicks |-> 0]
    ELSE IF findAndClickButton(pg, selectors[k])
         THEN [clicked |-> TRUE, tried |-> Append(tried, selectors[k]),
               clicks |-> 1]
         ELSE ClickLoop(pg, selectors, k + 1, Append(tried, selectors[k]))

\* The clicks of performClickButtonAction.
ClickButtonChain(plan, pg) ==
    LET bySelector == ClickLoop(pg, buttonSelectors(plan), 1, <<>>)
        byText == ClickTextOn(pg, DefaultElementTypes)
    IN  IF bySelector.clicked THEN bySelector
        ELSE [clicked |-> byText.clicked,
              tried |-> Append(bySelector.tried, "text"),
              clicks |-> byText.clicks]

\* The submit attempts of performFillFormAction.
FillFormChain(plan, pg) ==
    LET submit == Prop(plan, "submitButtonSelector")
        button == Prop(plan, "buttonSelector")
        Click(selector) == IF findAndClickButton(pg, selector) THEN 1 ELSE 0
        s1 == IF Truthy(submit)
              THEN [clicked |-> findAndClickButton(pg, submit),
                    tried |-> <<submit>>, clicks |-> Click(submit)]
              ELSE [clicked |-> FALSE, tried |-> <<>>, clicks |-> 0]
        s2 == IF ~s1.clicked /\ Truthy(button)
              THEN [clicked |-> findAndClickButton(pg, button),
                    tried |-> Append(s1.tried, button),
                    clicks |-> Click(button)]
              ELSE s1
        byText == ClickTextOn(pg, FormElementTypes)
    IN  IF ~s2.clicked
        THEN [clicked |-> byText.clicked,
              tried |-> Append(s2.tried, "text"),
              clicks |-> byText.clicks]
        ELSE s2

\* The clicks of performFallbackAction.
FallbackChain(pg) ==
    LET byText == ClickTextOn(pg, DefaultElementTypes)
    IN  [clicked |-> byText.clicked, tried |-> <<"text">>,
         clicks |-> byText.clicks]

\* { success: resultAnalysis.success, message: resultAnalysis.reason }
ActionResultOf(verdict) ==
    [success |-> Prop(verdict, "success"), message |-> Prop(verdict, "reason")]

\* -------------------------------------------------- unsubscribe orchestrator

InterRequestDelayMs == 1000

UrlOf(k) == "https://list-" \o ToString(k) \o ".example/unsubscribe"

MkResult(url, success, message, before, after) ==
    [url |-> url, success |-> success, message |-> message,
     screenshotBefore |-> before, screenshotAfter |-> after]

\* The catch block of unsubscribe().
CatchResult(url, message) == MkResult(url, "false", message, FALSE, FALSE)

NoRet == MkResult("", Undefined, "", FALSE, FALSE)
NoPlan == [type |-> "none"]
NoActionResult == [success |-> Undefined, message |-> ""]

FreshAtt ==
    [launched |-> FALSE, gap |-> 0, failed |-> "none",
     before |-> FALSE, plan |-> NoPlan, pg |-> Page({}, "none", "none"),
     tried |-> <<>>, clicks |-> 0,
     clicked |-> FALSE,
     waited |-> FALSE, settled |-> FALSE, llmCalls |-> 0,
     verdict |-> [type |-> "none"], heuristic |-> "none",
     actionResult |-> NoActionResult, ret |-> NoRet,
     closeRan |-> FALSE, settle |-> "none"]

\* Where control goes when the try block throws or returns: the finally block.
AfterTryMutant == "push"
AfterTry == "finally"

\* await new Promise((resolve) => setTimeout(resolve, 1000)): the time that
\* has passed when the loop goes on.
AwaitDelayMutant(elapsed) == elapsed
AwaitDelay(elapsed) == elapsed + InterRequestDelayMs

\* results.push(result)
PushResultMutant(res, r) == IF Truthy(r.success) THEN Append(res, r) ELSE res
PushResult(res, r) == Append(res, r)

\* A step of the try block threw: the catch block builds the result.
Throw(step, message) ==
    /\ att' = [att EXCEPT !.failed = step,
                          !.ret = CatchResult(urls[idx], message)]
    /\ pc' = AfterTry

BatchInit ==
    /\ \E n \in 0..MaxUrls : urls = [k \in 1..n |-> UrlOf(k)]
    /\ results = <<>>
    /\ idx = 1
    /\ pc = "loop"
    /\ browser = FALSE
    /\ context = FALSE
    /\ page = FALSE
    /\ procs = 0
    /\ sinceClose = 0
    /\ closes = 0
    /\ att = FreshAtt
    /\ navFailed = {}
    /\ response = [kind |-> "none", successCount |-> 0]

BatchIdle ==
    /\ urls = <<>>
    /\ results = <<>>
    /\ idx = 1
    /\ pc = "off"
    /\ browser = FALSE
    /\ context = FALSE
    /\ page = FALSE
    /\ procs = 0
    /\ sinceClose = 0
    /\ closes = 0
    /\ att = FreshAtt
    /\ navFailed = {}
    /\ response = [kind |-> "none", successCount |-> 0]

\* for (const url of urls): the next url gets a new agent, and the agent a
\* new BrowserController; after the last url, return results.
Loop ==
    /\ pc = "loop"
    /\ IF idx <= Len(urls)
       THEN /\ pc' = "launch"
            /\ browser' = FALSE
            /\ context' = FALSE
            /\ page' = FALSE
            /\ att' = FreshAtt
       ELSE /\ pc' = "returned"
            /\ UNCHANGED <<browser, context, page, att>>
    /\ UNCHANGED <<urls, results, idx, procs, sinceClose, closes, navFailed,
                   response, otherVars>>

\* BrowserController.launch(): chromium.launch, newContext, newPage.
Launch ==
    /\ pc = "launch"
    /\ \E o \in {"ok", "launch_throws", "context_throws", "page_throws"} :
         /\ browser' = (o # "launch_throws")
         /\ context' = (o \in {"ok", "page_throws"})
         /\ page' = (o = "ok")
         /\ procs' = IF o = "launch_throws" THEN procs ELSE procs + 1
         /\ IF o = "ok"
            THEN /\ att' = [att EXCEPT !.launched = TRUE,
                                       !.gap = sinceClose]
                 /\ pc' = "navigate"
            ELSE /\ att' = [att EXCEPT !.launched = TRUE,
                                       !.gap = sinceClose,
                                       !.failed = "launch",
                                       !.ret = CatchResult(urls[idx],
                                                           "launch failed")]
                 /\ pc' = AfterTry
    /\ UNCHANGED <<urls, results, idx, sinceClose, closes, navFailed,
                   response, otherVars>>

\* What page.goto(url) meets: a response that is ok(), a response that is
\* not, no response at all, a target that cannot be reached (goto rejects).
NavTargets == {"ok", "not_ok", "no_response", "unreachable"}

\* BrowserController.navigateTo(url): "throws" is Error('Browser not
\* launched'); otherwise response?.ok() ?? false, and false from the catch.
navigateToMutant(pageOpen, target) ==
    IF ~pageOpen \/ target = "unreachable" THEN "throws"
    ELSE IF target = "ok" THEN "true" ELSE "false"
navigateTo(pageOpen, target) ==
    IF ~pageOpen THEN "throws"
    ELSE IF target = "ok" THEN "true" ELSE "false"

\* BrowserController.navigateTo(url) and the early return of unsubscribe().
Navigate ==
    /\ pc = "navigate"
    /\ \E target \in NavTargets :
         LET navigated == navigateTo(page, target)
         IN  IF navigated = "throws"
             THEN /\ Throw("navigation", "Browser not launched")
                  /\ UNCHANGED navFailed
             ELSE IF navigated = "true"
             THEN /\ pc' = "shotBefore"
                  /\ UNCHANGED <<att, navFailed>>
             ELSE /\ att' = [att EXCEPT !.ret =
                          MkResult(urls[idx], "false",
                                   "Failed to navigate to unsubscribe page",
                                   FALSE, FALSE)]
                  /\ navFailed' = navFailed \cup {idx}
                  /\ pc' = AfterTry
    /\ UNCHANGED <<urls, results, idx, browser, context, page, procs,
                   sinceClose, closes, response, otherVars>>

\* browser.screenshot() and saveScreenshot(..._before.png).
ShotBefore ==
    /\ pc = "shotBefore"
    /\ \E o \in {"ok", "screenshot_throws", "save_throws"} :
         IF o = "ok"
         THEN /\ att' = [att EXCEPT !.before = TRUE]
              /\ pc' = "analyze"
         ELSE Throw("screenshot", "screenshot failed")
    /\ UNCHANGED <<urls, results, idx, browser, context, page, procs,
                   sinceClose, closes, navFailed, response, otherVars>>

\* What the batch meets: LLM answers to the page analysis, pages, visible
\* texts after the click, LLM answers to the result analysis.
BatchPlanResponses ==
    { CallThrows,
      Stream(<<TextChunk(<<Json(JsonPlan("click_button", "#unsub-btn", Undefined))>>)>>),
      Stream(<<TextChunk(<<FenceJson, NL,
                           Json(JsonPlan("fill_form", Undefined, "#submit")),
                           NL, Fence>>)>>),
      Stream(<<TextChunk(<<Json(JsonPlan("already_done", Undefined, Undefined))>>)>>),
      Stream(<<TextChunk(<<Json(JsonPlan("unknown", Undefined, Undefined))>>)>>),
      Stream(<<TextChunk(<<Json(JsonNull)>>)>>) }

BatchPages ==
    { Page({}, "none", "none"),
      Page({"#unsub-btn", "#submit"}, "none", "none"),
      Page({"#unsubscribe"}, "button", "ok"),
      Page({}, "a", "ok"),
      Page({}, "button", "wait_timeout") }

BatchTexts ==
    { <<"You", "have", "been", "Successfully", "UNSUBSCRIBED">>,
      <<"Email", "not", "found">>,
      <<"Link", "expired">>,
      <<"Please", "confirm", "your", "email">> }

BatchVerdictResponses ==
    { CallThrows,
      Stream(<<TextChunk(<<Json(JsonVerdict("true", "unsubscribed"))>>)>>),
      Stream(<<TextChunk(<<Json(JsonVerdict("true", "unknown"))>>)>>),
      Stream(<<TextChunk(<<Json(JsonVerdict("false", "requires_action"))>>)>>),
      Stream(<<TextChunk(<<Json(JsonVerdict("true", Undefined))>>)>>),
      Stream(<<TextChunk(<<Json(JsonNull)>>)>>) }

\* extractUnsubscribeElements(), getPageContent(), analyzePageWithAI().
Analyze ==
    /\ pc = "analyze"
    /\ \E o \in {"ok", "extract_throws"} :
         IF o = "ok"
         THEN \E r \in BatchPlanResponses :
                /\ att' = [att EXCEPT !.plan = analyzePageWithAI(r)]
                /\ pc' = "act"
         ELSE Throw("extraction", "extraction failed")
    /\ UNCHANGED <<urls, results, idx, browser, context, page, procs,
                   sinceClose, closes, navFailed, response, otherVars>>

\* performUnsubscribeAction(analysis, email) up to the click or submit.
Act ==
    /\ pc = "act"
    /\ \E pg \in BatchPages :
         LET plan == att.plan
             met == [att EXCEPT !.pg = pg]
             nextAction == Prop(plan, "nextAction")
             chain == CASE nextAction = "fill_form" -> FillFormChain(plan, pg)
                        [] nextAction = "click_button" ->
                             ClickButtonChain(plan, pg)
                        [] OTHER -> FallbackChain(pg)
         IN  IF plan.type = "null"
             THEN Throw("action", "TypeError: Cannot read properties of null")
             ELSE IF nextAction = "already_done"
             THEN /\ att' = [met EXCEPT !.actionResult =
                               [success |-> "true",
                                message |-> "Already unsubscribed"]]
                  /\ pc' = "shotAfter"
             ELSE IF nextAction \in {"fill_form", "click_button"}
             THEN IF chain.clicked
                  THEN /\ att' = [met EXCEPT !.tried = chain.tried,
                                             !.clicks = chain.clicks,
                                             !.clicked = TRUE]
                       /\ pc' = "verify"
                  ELSE /\ att' = [met EXCEPT !.tried = chain.tried,
                                    !.clicks = chain.clicks,
                                    !.actionResult =
                                      [success |-> "false",
                                       message |->
                                         IF nextAction = "fill_form"
                                         THEN "Could not submit unsubscribe form"
                                         ELSE "Could not find unsubscribe button"]]
                       /\ pc' = "shotAfter"
             ELSE /\ att' = [met EXCEPT !.tried = chain.tried,
                               !.clicks = chain.clicks,
                               !.clicked = chain.clicked,
                               !.actionResult =
                                 IF chain.clicked
                                 THEN [success |-> "true",
                                       message |-> "Attempted to unsubscribe"]
                                 ELSE [success |-> "false",
                                       message |->
                                         "Could not determine how to unsubscribe"]]
                  /\ pc' = "shotAfter"
    /\ UNCHANGED <<urls, results, idx, browser, context, page, procs,
                   sinceClose, closes, navFailed, response, otherVars>>

\* After a click or submit of performFillFormAction / performClickButtonAction:
\* waitForNavigation(3000), the settle delay (fill_form only),
\* getBodyTextContent(), analyzeUnsubscribeResult(bodyText).
Verify ==
    /\ pc = "verify"
    /\ \E nav \in {"ok", "timeout"}, body \in {"ok", "throws"} :
         IF nav = "timeout"
         THEN Throw("navigation-wait", "Timeout 3000ms exceeded")
         ELSE IF body = "throws"
         THEN Throw("verification", "getBodyTextContent failed")
         ELSE \E text \in BatchTexts, r \in BatchVerdictResponses :
                LET out == analyzeUnsubscribeResult(text, r)
                    seen == [att EXCEPT
                               !.waited = TRUE,
                               !.settled =
                                   (Prop(att.plan, "nextAction") = "fill_form"),
                               !.llmCalls = out.llmCalls,
                               !.verdict = out.verdict,
                               !.heuristic = out.heuristic.status]
                IN  IF out.verdict.type = "null"
                    THEN /\ att' = [seen EXCEPT
                                 !.failed = "verification",
                                 !.ret = CatchResult(urls[idx],
                                   "TypeError: Cannot read properties of null")]
                         /\ pc' = AfterTry
                    ELSE /\ att' = [seen EXCEPT !.actionResult =
                                      ActionResultOf(out.verdict)]
                         /\ pc' = "shotAfter"
    /\ UNCHANGED <<urls, results, idx, browser, context, page, procs,
                   sinceClose, closes, navFailed, response, otherVars>>

\* browser.screenshot(), saveScreenshot(..._after.png), and the return.
ShotAfter ==
    /\ pc = "shotAfter"
    /\ \E o \in {"ok", "screenshot_throws", "save_throws"} :
         IF o = "ok"
         THEN /\ att' = [att EXCEPT !.ret =
                           MkResult(urls[idx], att.actionResult.success,
                                    att.actionResult.message, TRUE, TRUE)]
              /\ pc' = AfterTry
         ELSE Throw("screenshot", "screenshot failed")
    /\ UNCHANGED <<urls, results, idx, browser, context, page, procs,
                   sinceClose, closes, navFailed, response, otherVars>>

\* What is left of an unsubscribe() call when it settles: its result, and
\* what is remembered of its run.
Settled(a, settle) ==
    [FreshAtt EXCEPT !.launched = a.launched, !.gap = a.gap,
                     !.failed = a.failed, !.ret = a.ret,
                     !.closeRan = a.closeRan, !.settle = settle]

\* BrowserController.close(), called in the finally block. A close that
\* throws leaves the fields it has not reached as they are, and the
\* exception replaces the result of unsubscribe().
Finally ==
    /\ pc = "finally"
    /\ \E ctxClose \in {"ok", "throws"}, brClose \in {"ok", "throws"} :
         LET ctxThrew == context /\ ctxClose = "throws"
             brThrew == ~ctxThrew /\ browser /\ brClose = "throws"
             threw == ctxThrew \/ brThrew
         IN  /\ context' = (context /\ ctxThrew)
             /\ browser' = (browser /\ threw)
             /\ page' = (page /\ threw)
             /\ procs' = IF browser /\ ~threw THEN procs - 1 ELSE procs
             /\ att' = Settled([att EXCEPT !.closeRan = TRUE],
                             IF threw THEN "rejected" ELSE "none")
             /\ pc' = IF threw THEN "rejected" ELSE "push"
    /\ closes' = closes + 1
    /\ sinceClose' = 0
    /\ UNCHANGED <<urls, results, idx, navFailed, response, otherVars>>

\* unsubscribe() resolved: results.push(result).
Push ==
    /\ pc = "push"
    /\ results' = PushResult(results, att.ret)
    /\ att' = Settled(att, "resolved")
    /\ pc' = "delay"
    /\ UNCHANGED <<urls, idx, browser, context, page, procs, sinceClose,
                   closes, navFailed, response, otherVars>>

\* The delay between requests, then the next url.
Delay ==
    /\ pc = "delay"
    /\ sinceClose' = AwaitDelay(sinceClose)
    /\ idx' = idx + 1
    /\ pc' = "loop"
    /\ UNCHANGED <<urls, results, browser, context, page, procs, closes, att,
                   navFailed, response, otherVars>>

\* POST /api/unsubscribe around bulkUnsubscribe: the per-item answer when
\* it resolves, the catch block's answer when it rejects.
Respond ==
    /\ pc \in {"returned", "rejected"}
    /\ response' =
         IF pc = "returned"
         THEN [kind |-> "per_item",
               successCount |->
                 Cardinality({k \in 1..Len(results) :
                                Truthy(results[k].success)})]
         ELSE [kind |-> "opaque_500", successCount |-> 0]
    /\ pc' = "responded"
    /\ UNCHANGED <<urls, results, idx, browser, context, page, procs,
                   sinceClose, closes, att, navFailed, otherVars>>

BatchNext ==
    \/ Loop
    \/ Launch
    \/ Navigate
    \/ ShotBefore
    \/ Analyze
    \/ Act
    \/ Verify
    \/ ShotAfter
    \/ Finally
    \/ Push
    \/ Delay
    \/ Respond

\* ---------------------------------------------- page intent analyzer, alone

PlanValues ==
    {JsonNull, JsonArray, [type |-> "object"]}
    \cup {JsonPlan(na, bs, ss) :
            na \in {"click_button", "fill_form", "already_done", "unknown",
                    "bogus"},
            bs \in {Undefined, "#unsub-btn"},
            ss \in {Undefined, "#submit"}}

PlanResponses ==
    FailedResponses \cup UNION {ResponsesWith(v) : v \in PlanValues}

\* Lengths of the extracted content and of the full page, in characters.
ExtractedLengths == {0, 100, 101, 20001}
PageLengths == {0, 15001}

Min(a, b) == IF a < b THEN a ELSE b

\* The content the prompt is built from: which one, and how much of it.
contentToAnalyze(extractedLen, pageLen) ==
    IF extractedLen > 100
    THEN [prompt |-> "extracted", length |-> Min(extractedLen, 20000)]
    ELSE [prompt |-> "html", length |-> Min(pageLen, 15000)]

NoInput == [prompt |-> "none", length |-> 0]

AnalyzerInit ==
    /\ aPc = "ready"
    /\ \E e \in ExtractedLengths, f \in PageLengths :
         aInput = contentToAnalyze(e, f)
    /\ aResponse = NoResponse
    /\ aPlan = NoPlan

AnalyzerIdle ==
    /\ aPc = "off"
    /\ aInput = NoInput
    /\ aResponse = NoResponse
    /\ aPlan = NoPlan

\* One call of analyzePageWithAI(extractedElements, fullPageContent).
AAnalyze ==
    /\ aPc = "ready"
    /\ \E r \in PlanResponses :
         /\ aResponse' = r
         /\ aPlan' = analyzePageWithAI(r)
    /\ aPc' = "returned"
    /\ UNCHANGED <<aInput, batchVars, controllerVars, extractVars, helperVars, syncVars, verifierVars, classifyVars>>

\* -------------------------------------------------------- AI batch processor

ConfidenceThreshold == 50

\* The confidence property of the LLM's answer: a number or a numeric
\* string (in hundredths), a text that is no number, or nothing.
Num(n) == [kind |-> "number", n |-> n]
NumStr(n) == [kind |-> "string", n |-> n]
NoNumber == [kind |-> "text", n |-> 0]
Missing == [kind |-> "missing", n |-> 0]

JsonCategorization(categoryId, confidence) ==
    [type |-> "object", categoryId |-> categoryId, confidence |-> confidence]

\* parseFloat(x) || 0
parseFloatOrZero(c) == IF c.kind \in {"number", "string"} THEN c.n ELSE 0

\* Math.max(0, Math.min(1, confidence))
Clamp(n) == IF n < 0 THEN 0 ELSE IF n > 100 THEN 100 ELSE n

NoMatch == [categoryId |-> "null", confidence |-> 0]

\* chunks.push(chunk.text) for the chunks that have one, join, trim.
CategorizationText(chunks) == Trim(JoinChunks(chunks))

\* The fences go only from a text that starts with one.
CleanCategorization(text) ==
    IF text # <<>> /\ Head(text) \in {FenceJson, Fence}
    THEN Trim(SelectSeq(StripFence(text, FenceJson), LAMBDA t : t # Fence))
    ELSE Trim(text)

\* parseCategorizationResponse without the check of the id.
parseCategorizationResponseMutant(text, cats) ==
    LET parsed == JSONParse(CleanCategorization(text))
    IN  IF ~parsed.ok \/ parsed.value.type # "object" THEN NoMatch
        ELSE [categoryId |-> Prop(parsed.value, "categoryId"),
              confidence |-> 100]

\* parseCategorizationResponse(text, categories)
parseCategorizationResponse(text, cats) ==
    LET parsed == JSONParse(CleanCategorization(text))
        value == parsed.value
        categoryId == Prop(value, "categoryId")
        raw == IF value.type = "object" /\ "confidence" \in DOMAIN value
               THEN value.confidence ELSE Missing
    IN  IF ~parsed.ok \/ value.type = "null" THEN NoMatch
        ELSE IF categoryId # "null" /\ categoryId \notin cats THEN NoMatch
        ELSE [categoryId |-> IF Truthy(categoryId) THEN categoryId
                             ELSE "null",
              confidence |-> Clamp(parseFloatOrZero(raw))]

categorizeEmail(cats, r) ==
    IF cats = {} THEN NoMatch
    ELSE IF r.kind = "throws" THEN NoMatch
    ELSE LET text == CategorizationText(r.chunks)
         IN  IF text = <<>> THEN NoMatch
             ELSE parseCategorizationResponse(text, cats)

\* parsed.categoryId as the LLM wrote it ("none" when no JSON came back).
RawCategoryId(r) ==
    LET parsed == JSONParse(CleanCategorization(CategorizationText(r.chunks)))
    IN  IF r.kind = "stream" /\ parsed.ok THEN Prop(parsed.value, "categoryId")
        ELSE "none"

\* summarizeEmail: the subject when the email has no content, when the
\* answer is empty and when the call fails; else the answer.
summarizeEmail(email, answer) ==
    IF ~email.hasContent THEN email.subject
    ELSE IF answer = "text" THEN "ai summary"
    ELSE email.subject

\* if (result.categoryId && result.confidence >= 0.5)
AcceptCategoryMutant(result) ==
    Truthy(result.categoryId) /\ result.confidence > ConfidenceThreshold
AcceptCategory(result) ==
    Truthy(result.categoryId) /\ result.confidence >= ConfidenceThreshold

EmailIds == 1..MaxEmails

\* An Email row as ingestion stores it: no summary, no category.
NewEmail(subject, hasContent) ==
    [subject |-> subject, hasContent |-> hasContent, summary |-> "null",
     categoryId |-> "null", hasConfidence |-> FALSE, aiConfidence |-> 0]

EmailKinds == {NewEmail("Sale", TRUE), NewEmail("", FALSE)}

\* The JSON values the categorization call answers with: no object, no
\* category, a category of the user, and an id that is no category of theirs.
CategorizationValues ==
    {JsonNull, JsonArray}
    \cup {JsonCategorization(c, n) :
            c \in {"null", "c1"},
            n \in {Num(49), Num(50), NumStr(100), Num(150), Num(0 - 10),
                   NoNumber, Missing}}
    \cup {JsonCategorization(c, Num(100)) : c \in {"zz", Undefined}}

\* The answers of the categorization call: none, no text, no JSON, each
\* JSON value bare, and one value inside fences, with and without a lead-in.
CategorizationResponses ==
    {CallThrows, Stream(<<UsageChunk>>), Stream(<<TextChunk(<<Prose>>)>>)}
    \cup {Stream(<<TextChunk(<<Json(v)>>)>>) : v \in CategorizationValues}
    \cup {Stream(<<TextChunk(<<FenceJson, NL, Json(v), NL, Fence>>)>>) :
            v \in {JsonCategorization("c1", Num(50))}}
    \cup {Stream(<<TextChunk(<<Prose, FenceJson, NL, Json(v), NL, Fence>>)>>) :
            v \in {JsonCategorization("c1", Num(50))}}

\* The categories of a user who has some.
UserCategories == {"c1", "c2"}

\* What categorizeEmail can return for such a user, over the answers of its
\* call.
Categorizations ==
    {[rawId |-> RawCategoryId(r),
      result |-> categorizeEmail(UserCategories, r)] :
        r \in CategorizationResponses}

ZeroStats ==
    [total |-> 0, categorized |-> 0, summarized |-> 0, errors |-> 0,
     skipped |-> 0]

NoLast ==
    [id |-> 0, askedSummary |-> FALSE, asked |-> FALSE, rawId |-> "none",
     result |-> NoMatch, accepted |-> FALSE, write |-> "none"]

ClassifyInit ==
    /\ emails \in [EmailIds -> EmailKinds]
    /\ categories \in {{}, UserCategories}
    /\ configured \in BOOLEAN
    /\ limit \in 1..MaxEmails
    /\ cPc = "idle"
    /\ cQueue = <<>>
    /\ cStats = ZeroStats
    /\ cLast = NoLast

ClassifyIdle ==
    /\ emails = [k \in EmailIds |-> NewEmail("", FALSE)]
    /\ categories = {}
    /\ configured = FALSE
    /\ limit = 1
    /\ cPc = "off"
    /\ cQueue = <<>>
    /\ cStats = ZeroStats
    /\ cLast = NoLast

\* where: { OR: [{ summary: null }, { categoryId: null } when categories exist] }
NeedsProcessing(e) ==
    e.summary = "null" \/ (categories # {} /\ e.categoryId = "null")

\* orderBy: { receivedAt: 'desc' }, take: limit. Email k was received at
\* time k.
RECURSIVE NewestFirst(_, _)
NewestFirst(k, taken) ==
    IF k = 0 \/ taken = limit THEN <<>>
    ELSE IF NeedsProcessing(emails[k])
         THEN <<[id |-> k, summary |-> emails[k].summary,
                 categoryId |-> emails[k].categoryId]>>
              \o NewestFirst(k - 1, taken + 1)
         ELSE NewestFirst(k - 1, taken)

\* processEmailsForUser up to the loop: the checks and the two queries.
CStart ==
    /\ cPc = "idle"
    /\ cLast' = NoLast
    /\ IF ~configured
       THEN /\ cStats' = ZeroStats
            /\ cQueue' = <<>>
            /\ cPc' = "done"
       ELSE LET found == NewestFirst(MaxEmails, 0)
            IN  /\ cStats' = [ZeroStats EXCEPT !.total = Len(found)]
                /\ cQueue' = found
                /\ cPc' = IF found = <<>> THEN "done" ELSE "loop"
    /\ UNCHANGED <<emails, categories, configured, limit, batchVars, controllerVars, extractVars, helperVars, syncVars,
                   verifierVars, analyzerVars>>

\* if (!email.summary): the loop summarizes an email only if the row it
\* selected has no summary.
asksSummaryMutant(email) == TRUE
asksSummary(email) == ~Truthy(email.summary)

\* One pass of the loop: summarize, categorize, update the row.
CProcess ==
    /\ cPc = "loop"
    /\ cQueue # <<>>
    /\ LET email == Head(cQueue)
           row == emails[email.id]
           summarizes == asksSummary(email)
           asksCategory == ~Truthy(email.categoryId) /\ categories # {}
           \* what summarizeEmail can return, over the answers of its call
           summaries ==
               IF summarizes
               THEN {summarizeEmail(row, answer) :
                       answer \in {"text", "empty", "throws"}}
               ELSE {""}
           categorizations ==
               IF asksCategory THEN Categorizations
               ELSE {[rawId |-> "none", result |-> NoMatch]}
       IN
       \E summary \in summaries, c \in categorizations,
          db \in {"ok", "throws"} :
         LET setSummary == summarizes /\ Truthy(summary)
             asked == asksCategory
             result == c.result
             accepted == asked /\ AcceptCategory(result)
             hasUpdates == setSummary \/ accepted
             written == hasUpdates /\ db = "ok"
         IN  /\ emails' =
                  IF written
                  THEN [emails EXCEPT ![email.id] =
                          [row EXCEPT
                             !.summary = IF setSummary THEN summary ELSE @,
                             !.categoryId =
                                 IF accepted THEN result.categoryId ELSE @,
                             !.hasConfidence = IF accepted THEN TRUE ELSE @,
                             !.aiConfidence =
                                 IF accepted THEN result.confidence ELSE @]]
                  ELSE emails
             /\ cStats' =
                  [cStats EXCEPT
                     !.summarized = IF setSummary THEN @ + 1 ELSE @,
                     !.categorized = IF accepted THEN @ + 1 ELSE @,
                     !.errors = IF hasUpdates /\ ~written THEN @ + 1 ELSE @,
                     !.skipped = IF ~hasUpdates THEN @ + 1 ELSE @]
             /\ cLast' =
                  [id |-> email.id, askedSummary |-> summarizes,
                   asked |-> asked, rawId |-> c.rawId,
                   result |-> result, accepted |-> accepted,
                   write |-> IF ~hasUpdates THEN "none"
                             ELSE IF written THEN "ok" ELSE "failed"]
    /\ cQueue' = Tail(cQueue)
    /\ cPc' = IF Tail(cQueue) = <<>> THEN "done" ELSE "loop"
    /\ UNCHANGED <<categories, configured, limit, batchVars, controllerVars, extractVars, helperVars, syncVars, verifierVars,
                   analyzerVars>>

\* The run returned its stats; a later run may start.
CReturn ==
    /\ cPc = "done"
    /\ cPc' = "idle"
    /\ UNCHANGED <<emails, categories, configured, limit, cQueue, cStats,
                   cLast, batchVars, controllerVars, extractVars, helperVars, syncVars, verifierVars, analyzerVars>>

ClassifyNext == CStart \/ CProcess \/ CReturn

\* recategorizeEmails(userId, categories, options) up to the loop, called
\* with the user's categories.
RStart ==
    /\ cPc = "idle"
    /\ cLast' = NoLast
    /\ IF ~configured \/ categories = {}
       THEN /\ cStats' = ZeroStats
            /\ cQueue' = <<>>
            /\ cPc' = "done"
       ELSE LET found == [k \in 1..Min(limit, MaxEmails) |->
                            [id |-> MaxEmails + 1 - k, summary |-> "null",
                             categoryId |-> "null"]]
            IN  /\ cStats' = [ZeroStats EXCEPT !.total = Len(found)]
                /\ cQueue' = found
                /\ cPc' = "recategorize"
    /\ UNCHANGED <<emails, categories, configured, limit, batchVars, controllerVars, extractVars, helperVars, syncVars,
                   verifierVars, analyzerVars>>

\* One pass of the loop of recategorizeEmails: categorize, then store the
\* category or clear it.
RProcess ==
    /\ cPc = "recategorize"
    /\ cQueue # <<>>
    /\ \E c \in Categorizations, db \in {"ok", "throws"} :
         LET email == Head(cQueue)
             row == emails[email.id]
             result == c.result
             matched == Truthy(result.categoryId)
         IN  /\ emails' =
                  IF db = "throws" THEN emails
                  ELSE [emails EXCEPT ![email.id] =
                          IF matched
                          THEN [row EXCEPT !.categoryId = result.categoryId,
                                           !.hasConfidence = TRUE,
                                           !.aiConfidence = result.confidence]
                          ELSE [row EXCEPT !.categoryId = "null",
                                           !.hasConfidence = FALSE,
                                           !.aiConfidence = 0]]
             /\ cStats' =
                  [cStats EXCEPT
                     !.categorized = IF db = "ok" /\ matched THEN @ + 1 ELSE @,
                     !.skipped = IF db = "ok" /\ ~matched THEN @ + 1 ELSE @,
                     !.errors = IF db = "throws" THEN @ + 1 ELSE @]
             /\ cLast' =
                  [id |-> email.id, askedSummary |-> FALSE, asked |-> TRUE,
                   rawId |-> c.rawId, result |-> result,
                   accepted |-> matched,
                   write |-> IF db = "ok" THEN "ok" ELSE "failed"]
    /\ cQueue' = Tail(cQueue)
    /\ cPc' = IF Tail(cQueue) = <<>> THEN "done" ELSE "recategorize"
    /\ UNCHANGED <<categories, configured, limit, batchVars, controllerVars, extractVars, helperVars, syncVars, verifierVars,
                   analyzerVars>>

RecategorizeNext == ClassifyNext \/ RStart \/ RProcess

\* ------------------------------------------------------------- email sync

\* The email accounts, and the two callers that sync them: the
\* user-triggered route and the scheduled one.
Accounts == {"a1", "a2"}
Runs == {"user", "cron"}

\* The ids of the messages of an account's mailbox; the second account has
\* one message.
MessageIds(a) == IF a = "a1" THEN 1..MaxMessages ELSE {MaxMessages + 1}

\* messageIds.filter((id) => !existingIds.has(id))
newMessageIdsMutant(messageIds, existingIds) == messageIds
newMessageIds(messageIds, existingIds) == messageIds \ existingIds

\* skipDuplicates: true
SkipDuplicatesMutant == FALSE
SkipDuplicates == TRUE

\* prisma.email.createMany under the unique index Email_gmailId_key: one
\* statement, which skips the rows in conflict or fails as a whole.
createMany(st, ids, skipDuplicates) ==
    LET conflicts == {i \in ids : st[i] > 0}
    IN  IF conflicts # {} /\ ~skipDuplicates
        THEN [ok |-> FALSE, store |-> st, count |-> 0]
        ELSE [ok |-> TRUE,
              store |-> [i \in DOMAIN st |->
                           IF i \in ids \ conflicts THEN st[i] + 1 ELSE st[i]],
              count |-> Cardinality(ids \ conflicts)]

\* The locals of syncEmailsForAccount(accountId) at entry, default options;
\* later records that the run was entered after the other run had returned.
FreshRun(a) ==
    [account |-> a, pc |-> "start", later |-> FALSE, ids |-> {},
     existing |-> {}, got |-> {},
     toCreate |-> {}, inserted |-> 0, archivedIds |-> {}, faults |-> {},
     result |-> [accountId |-> a, email |-> "", fetched |-> 0, stored |-> 0,
                 archived |-> 0, errors |-> <<>>]]

\* The outer catch of syncEmailsForAccount: the error goes into the result.
SyncFailedMutant(run, fault, message) ==
    [run EXCEPT !.pc = "threw", !.faults = @ \cup {fault}]
SyncFailed(run, fault, message) ==
    [run EXCEPT !.pc = "done", !.faults = @ \cup {fault},
                !.result.errors = Append(@, message)]

SyncInit ==
    /\ accounts \in [Accounts -> {"ok", "missing", "expired"}]
    /\ mailbox = [a \in Accounts |-> MessageIds(a)]
    /\ store = [i \in 1..(MaxMessages + 1) |-> 0]
    /\ sync \in {[r \in Runs |-> FreshRun(f[r])] : f \in [Runs -> Accounts]}
    /\ sOut = [kind |-> "none"]

SyncIdle ==
    /\ accounts = [a \in Accounts |-> "missing"]
    /\ mailbox = [a \in Accounts |-> {}]
    /\ store = [i \in 1..(MaxMessages + 1) |-> 0]
    /\ sync = [r \in Runs |-> [FreshRun("a1") EXCEPT !.pc = "off"]]
    /\ sOut = [kind |-> "none"]

\* createGmailClient and listMessages.
SList(r) ==
    /\ sync[r].pc = "start"
    /\ LET run == [sync[r] EXCEPT !.later =
                     \A q \in Runs \ {r} : sync[q].pc = "done"]
           kind == accounts[run.account]
       IN  \E client \in (IF kind = "missing" THEN {"null"}
                          ELSE IF kind = "expired" THEN {"client", "null"}
                          ELSE {"client"}),
              listed \in {"ok", "throws"} :
             sync' = [sync EXCEPT ![r] =
                 IF client = "null"
                 THEN [run EXCEPT
                         !.pc = "done", !.faults = @ \cup {"client"},
                         !.result.errors =
                             Append(@, "Failed to create Gmail client")]
                 ELSE IF listed = "throws"
                 THEN SyncFailed([run EXCEPT !.result.email = run.account],
                                 "provider", "Sync failed: list")
                 ELSE [run EXCEPT
                         !.result.email = run.account,
                         !.ids = mailbox[run.account],
                         !.result.fetched = Cardinality(mailbox[run.account]),
                         !.pc = IF mailbox[run.account] = {} THEN "done"
                                ELSE "listed"]]
    /\ UNCHANGED <<accounts, mailbox, store, sOut, batchVars, controllerVars, extractVars, helperVars, verifierVars,
                   analyzerVars, classifyVars>>

\* prisma.email.findMany for the listed ids, and the filter.
SExisting(r) ==
    /\ sync[r].pc = "listed"
    /\ LET run == sync[r]
           existingIds == {i \in run.ids : store[i] > 0}
       IN  sync' = [sync EXCEPT ![r] =
                      [run EXCEPT
                         !.existing = existingIds,
                         !.pc = IF newMessageIds(run.ids, existingIds) = {}
                                THEN "done" ELSE "checked"]]
    /\ UNCHANGED <<accounts, mailbox, store, sOut, batchVars, controllerVars, extractVars, helperVars, verifierVars,
                   analyzerVars, classifyVars>>

\* getMessages for the new ids, and processMessage on each message.
SFetch(r) ==
    /\ sync[r].pc = "checked"
    /\ LET run == sync[r]
           new == newMessageIds(run.ids, run.existing)
       IN  \E fetched \in {"ok", "throws"}, bad \in SUBSET new :
             sync' = [sync EXCEPT ![r] =
                 IF fetched = "throws"
                 THEN SyncFailed(run, "provider", "Sync failed: get")
                 ELSE [run EXCEPT
                         !.got = new,
                         !.toCreate = new \ bad,
                         !.faults = IF bad # {} THEN @ \cup {"message"}
                                    ELSE @,
                         !.result.errors =
                             IF bad # {}
                             THEN Append(@, "Failed to process message")
                             ELSE @,
                         !.pc = "fetched"]]
    /\ UNCHANGED <<accounts, mailbox, store, sOut, batchVars, controllerVars, extractVars, helperVars, verifierVars,
                   analyzerVars, classifyVars>>

\* prisma.email.createMany({ data: emailsToCreate, skipDuplicates: true })
SInsert(r) ==
    /\ sync[r].pc = "fetched"
    /\ LET run == sync[r]
           made == createMany(store, run.toCreate, SkipDuplicates)
       IN  IF run.toCreate = {}
           THEN /\ sync' = [sync EXCEPT ![r].pc = "inserted"]
                /\ store' = store
           ELSE IF made.ok
           THEN /\ store' = made.store
                /\ sync' = [sync EXCEPT ![r] =
                     [run EXCEPT !.inserted = made.count,
                                 !.result.stored = Cardinality(run.toCreate),
                                 !.pc = "inserted"]]
           ELSE /\ store' = store
                /\ sync' = [sync EXCEPT ![r] =
                     SyncFailed(run, "duplicate",
                                "Sync failed: Unique constraint failed")]
    /\ UNCHANGED <<accounts, mailbox, sOut, batchVars, controllerVars, extractVars, helperVars, verifierVars,
                   analyzerVars, classifyVars>>

\* archiveMessages for the messages that went into emailsToCreate.
SArchive(r) ==
    /\ sync[r].pc = "inserted"
    /\ LET run == sync[r]
       IN  \E archived \in SUBSET run.toCreate :
             /\ mailbox' = [mailbox EXCEPT ![run.account] = @ \ archived]
             /\ sync' = [sync EXCEPT ![r] =
                  IF archived = run.toCreate
                  THEN [run EXCEPT
                          !.archivedIds = archived,
                          !.result.archived = Cardinality(archived),
                          !.pc = "done"]
                  ELSE [run EXCEPT
                          !.archivedIds = archived,
                          !.faults = @ \cup {"archive"},
                          !.result.errors =
                              Append(@, "Failed to archive messages"),
                          !.pc = "done"]]
    /\ UNCHANGED <<accounts, store, sOut, batchVars, controllerVars, extractVars, helperVars, verifierVars,
                   analyzerVars, classifyVars>>

\* syncEmailsForUser (Promise.all, then the AI step) and syncAllEmails (one
\* account after the other) hand back the results of the runs.
SCollect ==
    /\ sOut.kind = "none"
    /\ \A r \in Runs : sync[r].pc \in {"done", "threw"}
    /\ \E ai \in {"none", "throws"} :
         sOut' =
           IF \E r \in Runs : sync[r].pc = "threw"
           THEN [kind |-> "rejected"]
           ELSE [kind |-> "results",
                 results |-> [r \in Runs |->
                     IF ai = "throws"
                     THEN [sync[r].result EXCEPT
                             !.errors = Append(@, "AI processing failed")]
                     ELSE sync[r].result]]
    /\ UNCHANGED <<accounts, mailbox, store, sync, batchVars, controllerVars, extractVars, helperVars, verifierVars,
                   analyzerVars, classifyVars>>

SyncNext ==
    \/ \E r \in Runs : SList(r) \/ SExisting(r) \/ SFetch(r)
    \/ \E r \in Runs : SInsert(r) \/ SArchive(r)
    \/ SCollect

\* ------------------------------------------- browser controller, on its own

\* new BrowserController(): no browser, no context, no page. live records
\* that a launch() has resolved and no close() has resolved since.
ControllerInit ==
    /\ ctl = [pc |-> "ready", calls |-> 0, launches |-> 0, live |-> FALSE,
              last |-> [op |-> "none", target |-> "none",
                        outcome |-> "none"]]
    /\ browser = FALSE
    /\ context = FALSE
    /\ page = FALSE
    /\ procs = 0
    /\ urls = <<>>
    /\ results = <<>>
    /\ idx = 1
    /\ pc = "off"
    /\ sinceClose = 0
    /\ closes = 0
    /\ att = FreshAtt
    /\ navFailed = {}
    /\ response = [kind |-> "none", successCount |-> 0]

ControllerIdle ==
    ctl = [pc |-> "off", calls |-> 0, launches |-> 0, live |-> FALSE,
           last |-> [op |-> "none", target |-> "none",
                        outcome |-> "none"]]

\* launch(): chromium.launch, newContext, newPage; each assignment is made
\* when its await resolves, so a failure keeps what was assigned before.
KLaunch ==
    /\ ctl.pc = "ready"
    /\ ctl.calls < MaxCalls
    /\ \E o \in {"ok", "launch_throws", "context_throws", "page_throws"} :
         /\ browser' = (browser \/ o # "launch_throws")
         /\ context' = (context \/ o \in {"ok", "page_throws"})
         /\ page' = (page \/ o = "ok")
         /\ procs' = IF o = "launch_throws" THEN procs ELSE procs + 1
         /\ ctl' = [ctl EXCEPT
                      !.calls = @ + 1,
                      !.launches = IF o = "ok" THEN @ + 1 ELSE @,
                      !.live = (@ \/ o = "ok"),
                      !.last = [op |-> "launch", target |-> "none",
                                outcome |-> IF o = "ok" THEN "resolved"
                                            ELSE "throws"]]
    /\ UNCHANGED <<urls, results, idx, pc, sinceClose, closes, att, navFailed,
                   response, verifierVars, analyzerVars, classifyVars,
                   syncVars, extractVars, helperVars>>

\* navigateTo(url), called in whatever state the controller is.
KNavigate ==
    /\ ctl.pc = "ready"
    /\ ctl.calls < MaxCalls
    /\ \E target \in NavTargets :
         ctl' = [ctl EXCEPT
                   !.calls = @ + 1,
                   !.last = [op |-> "navigateTo", target |-> target,
                             outcome |-> navigateTo(page, target)]]
    /\ UNCHANGED <<batchVars, verifierVars, analyzerVars, classifyVars,
                   syncVars, extractVars, helperVars>>

\* close(): context.close(), browser.close(), page = null; a close that
\* throws leaves the fields it has not reached.
KClose ==
    /\ ctl.pc = "ready"
    /\ ctl.calls < MaxCalls
    /\ \E ctxClose \in {"ok", "throws"}, brClose \in {"ok", "throws"} :
         LET ctxThrew == context /\ ctxClose = "throws"
             brThrew == ~ctxThrew /\ browser /\ brClose = "throws"
             threw == ctxThrew \/ brThrew
         IN  /\ context' = (context /\ ctxThrew)
             /\ browser' = (browser /\ threw)
             /\ page' = (page /\ threw)
             /\ procs' = IF browser /\ ~threw THEN procs - 1 ELSE procs
             /\ ctl' = [ctl EXCEPT
                          !.calls = @ + 1,
                          !.live = (@ /\ threw),
                          !.last = [op |-> "close", target |-> "none",
                                    outcome |-> IF threw THEN "throws"
                                                ELSE "resolved"]]
    /\ UNCHANGED <<urls, results, idx, pc, sinceClose, closes, att, navFailed,
                   response, verifierVars, analyzerVars, classifyVars,
                   syncVars, extractVars, helperVars>>

ControllerNext == KLaunch \/ KNavigate \/ KClose

\* ---------------------------------- unsubscribe link of an ingested message

\* A URI by its scheme and the word its path carries.
Uri(scheme, word) == [scheme |-> scheme, word |-> word]
NoLink == Uri("none", "none")

HrefWords == {"unsubscribe", "optout", "opt-out", "remove", "prefs"}

RECURSIVE UriSeqs(_, _)
UriSeqs(words, n) ==
    IF n = 0 THEN {<<>>}
    ELSE LET shorter == UriSeqs(words, n - 1)
         IN  shorter \cup {Append(q, Uri(sc, w)) :
                             q \in shorter, sc \in {"mailto", "https"},
                             w \in words}

\* extractUnsubscribeLink(headers, htmlBody): the first <http(s)://...> of
\* the List-Unsubscribe header; else, for the patterns unsubscribe, optout,
\* opt-out, remove in this order, the first http(s) href that carries the
\* word; else null. header is the sequence of the header's bracketed URIs
\* (empty: no header), html.hrefs the hrefs of the body in document order.
extractUnsubscribeLink(header, html) ==
    LET Http(u) == u.scheme \in {"http", "https"}
        First(idxs) == CHOOSE k \in idxs : \A j \in idxs : k <= j
        inHeader == {k \in 1..Len(header) : Http(header[k])}
        unsubscribePatterns == <<"unsubscribe", "optout", "opt-out", "remove">>
        Hits(w) == {k \in 1..Len(html.hrefs) :
                      Http(html.hrefs[k]) /\ html.hrefs[k].word = w}
        matching == {i \in 1..Len(unsubscribePatterns) :
                       Hits(unsubscribePatterns[i]) # {}}
    IN  IF inHeader # {} THEN header[First(inHeader)]
        ELSE IF html.present /\ matching # {}
        THEN html.hrefs[First(Hits(unsubscribePatterns[First(matching)]))]
        ELSE NoLink

\* What the extraction LLM answers to one request.
LlmAnswer(kind, uri) == [kind |-> kind, uri |-> uri]
LlmAnswers ==
    { LlmAnswer("throws", NoLink), LlmAnswer("empty", NoLink),
      LlmAnswer("NONE", NoLink), LlmAnswer("prose", NoLink),
      LlmAnswer("url", Uri("http", "unsubscribe")),
      LlmAnswer("url", Uri("mailto", "unsubscribe")) }

\* extractUnsubscribeLinkWithAI(htmlBody, textBody): the link it returns and
\* the LLM requests it makes, the LLM answering first to the head of the
\* content and second to its tail.
extractUnsubscribeLinkWithAI(isConfigured, html, hasText, first, second) ==
    LET Nothing(a) == a.kind \in {"empty", "NONE"}
        result == IF Nothing(first) THEN second ELSE first
        calls == IF first.kind = "throws" \/ ~Nothing(first) THEN 1 ELSE 2
    IN  IF ~isConfigured \/ ~(html.present \/ hasText)
        THEN [link |-> NoLink, calls |-> 0]
        ELSE [link |-> IF result.kind = "url"
                          /\ result.uri.scheme \in {"http", "https"}
                       THEN result.uri ELSE NoLink,
              calls |-> calls]

\* A message as processMessage gets it, and the LLM it would meet.
ExtractInit ==
    \E header \in UriSeqs({"list"}, MaxLinks),
       hrefs \in UriSeqs(HrefWords, MaxLinks),
       present \in BOOLEAN, hasText \in BOOLEAN, isConfigured \in BOOLEAN,
       first \in LlmAnswers,
       second \in {LlmAnswer("NONE", NoLink),
                   LlmAnswer("url", Uri("https", "unsubscribe"))} :
        /\ present \/ hrefs = <<>>
        /\ ext = [pc |-> "message", header |-> header,
                  html |-> [present |-> present, hrefs |-> hrefs],
                  hasText |-> hasText, configured |-> isConfigured,
                  first |-> first, second |-> second,
                  unsubscribeLink |-> NoLink, llmCalls |-> 0]

ExtractIdle ==
    ext = [pc |-> "off", header |-> <<>>,
           html |-> [present |-> FALSE, hrefs |-> <<>>],
           hasText |-> FALSE, configured |-> FALSE,
           first |-> LlmAnswer("empty", NoLink),
           second |-> LlmAnswer("empty", NoLink),
           unsubscribeLink |-> NoLink, llmCalls |-> 0]

\* processMessage(message, accountId): the unsubscribeLink of the row it
\* builds, and the LLM requests made on the way.
XProcess ==
    /\ ext.pc = "message"
    /\ ext' = [ext EXCEPT
                 !.pc = "row",
                 !.unsubscribeLink = extractUnsubscribeLink(ext.header, ext.html),
                 !.llmCalls = 0]
    /\ UNCHANGED <<batchVars, verifierVars, analyzerVars, classifyVars,
                   syncVars, controllerVars, helperVars>>

\* ------------------------------------------------------ category validation

\* Longest category name and description the schema accepts.
MaxNameLength == 50
MaxDescriptionLength == 500

\* A property of the object handed to safeParse: a string (its characters),
\* null, or absent.
Str(chars) == [kind |-> "string", chars |-> chars]
Absent == [kind |-> "undefined", chars |-> <<>>]
Null == [kind |-> "null", chars |-> <<>>]

Repeat(ch, n) == [k \in 1..n |-> ch]

HexDigits ==
    {"0", "1", "2", "3", "4", "5", "6", "7", "8", "9",
     "a", "b", "c", "d", "e", "f", "A", "B", "C", "D", "E", "F"}

\* /^#[0-9A-Fa-f]{6}$/ and the same with three to six digits.
IsHexColorMutant(chars) ==
    /\ Len(chars) \in 4..7
    /\ chars[1] = "#"
    /\ \A k \in 2..Len(chars) : chars[k] \in HexDigits
IsHexColor(chars) ==
    /\ Len(chars) = 7
    /\ chars[1] = "#"
    /\ \A k \in 2..7 : chars[k] \in HexDigits

\* z.string().cuid(): a 'c' and at least eight characters that are neither
\* white space nor '-'.
IsCuid(chars) ==
    /\ Len(chars) >= 9
    /\ chars[1] \in {"c", "C"}
    /\ \A k \in 2..Len(chars) : chars[k] \notin {" ", "-"}

\* String.prototype.trim on a character sequence.
RECURSIVE TrimChars(_)
TrimChars(chars) ==
    IF chars = <<>> THEN <<>>
    ELSE IF Head(chars) = " " THEN TrimChars(Tail(chars))
    ELSE IF chars[Len(chars)] = " "
         THEN TrimChars(SubSeq(chars, 1, Len(chars) - 1))
    ELSE chars

\* name: z.string().min(1).max(50).trim(); the lengths are checked on the
\* string as it came, then it is trimmed.
NameOk(v) == v.kind = "string" /\ Len(v.chars) >= 1 /\ Len(v.chars) <= MaxNameLength

\* description: z.string().max(500).optional().nullable()
DescriptionOk(v) ==
    v.kind \in {"undefined", "null"}
    \/ (v.kind = "string" /\ Len(v.chars) <= MaxDescriptionLength)

\* color: z.string().regex(/^#[0-9A-Fa-f]{6}$/)
ColorOk(v) == v.kind = "string" /\ IsHexColor(v.chars)

\* What safeParse returns: success, and in data the name trimmed.
Parsed(ok, input) ==
    [success |-> ok,
     name |-> IF ok /\ input.name.kind = "string"
              THEN Str(TrimChars(input.name.chars)) ELSE Absent]

\* createCategorySchema.safeParse(input)
createCategorySchema(input) ==
    Parsed(NameOk(input.name) /\ DescriptionOk(input.description)
             /\ ColorOk(input.color),
           input)

\* updateCategorySchema.safeParse(input): categorySchema.partial() and an id.
updateCategorySchema(input) ==
    Parsed(/\ input.name.kind = "undefined" \/ NameOk(input.name)
           /\ DescriptionOk(input.description)
           /\ input.color.kind = "undefined" \/ ColorOk(input.color)
           /\ input.id.kind = "string" /\ IsCuid(input.id.chars),
           input)

Names ==
    {Absent, Str(<<>>), Str(<<"W">>), Str(<<" ">>),
     Str(Repeat("a", MaxNameLength - 1)), Str(Repeat("a", MaxNameLength)),
     Str(Repeat("a", MaxNameLength + 1)),
     Str(Repeat("a", MaxNameLength) \o <<" ">>),
     Str(<<" ">> \o Repeat("a", MaxNameLength - 1))}

Descriptions ==
    {Absent, Null, Str(<<"d">>), Str(Repeat("d", MaxDescriptionLength)),
     Str(Repeat("d", MaxDescriptionLength + 1))}

Colors ==
    {Absent, Null,
     Str(<<"#", "1", "a", "2", "b", "3", "c">>),
     Str(<<"#", "F", "F", "5", "7", "3", "3">>),
     Str(<<"#", "f", "f", "f">>),
     Str(<<"#", "1", "2", "3", "4", "5", "g">>),
     Str(<<"#", "1", "2", "3", "4", "5", "6", "7">>),
     Str(<<"1", "a", "2", "b", "3", "c", "4">>),
     Str(<<"x", "#", "1", "a", "2", "b", "3", "c">>),
     Str(<<"r", "e", "d">>)}

Ids ==
    {Absent, Str(<<"a", "b", "c">>),
     Str(<<"c", "l", "x", "y", "z", "1", "2", "3", "4", "5">>),
     Str(<<"c", "l", "x", "y", " ", "1", "2", "3", "4", "5">>)}

ValidationInit ==
    cat \in [pc : {"input"}, schema : {"create", "update"},
             input : [name : Names, description : Descriptions,
                      color : Colors, id : Ids],
             out : {Parsed(FALSE, [name |-> Absent])}]

ValidationIdle ==
    cat = [pc |-> "off", schema |-> "create",
           input |-> [name |-> Absent, description |-> Absent,
                      color |-> Absent, id |-> Absent],
           out |-> Parsed(FALSE, [name |-> Absent])]

\* The route hands the body to the schema.
VCreate ==
    /\ cat.pc = "input"
    /\ cat.schema = "create"
    /\ cat' = [cat EXCEPT !.pc = "parsed",
                           !.out = createCategorySchema(cat.input)]
    /\ UNCHANGED <<batchVars, verifierVars, analyzerVars, classifyVars,
                   syncVars, controllerVars, extractVars, fld, txt>>

VUpdate ==
    /\ cat.pc = "input"
    /\ cat.schema = "update"
    /\ cat' = [cat EXCEPT !.pc = "parsed",
                           !.out = updateCategorySchema(cat.input)]
    /\ UNCHANGED <<batchVars, verifierVars, analyzerVars, classifyVars,
                   syncVars, controllerVars, extractVars, fld, txt>>

ValidationNext == VCreate \/ VUpdate

\* ------------------------------------------- form fields of fill_form, alone

\* The placeholder the page analysis writes where the address belongs.
EmailPlaceholder == "{{EMAIL}}"

FieldTypes == {"checkbox", "radio", "select", "text", "email"}
FieldValues == {EmailPlaceholder, "check", "weekly"}

\* The value a field is handled with: the address for the placeholder, if
\* the caller gave one.
fieldValue(value, email) ==
    IF value = EmailPlaceholder /\ Truthy(email) THEN email ELSE value

\* The body of the loop over formFieldsToFill: the calls made on the
\* browser for one field.
fillField(field, email) ==
    LET value == fieldValue(field.value, email)
    IN  IF field.type \in {"checkbox", "radio"}
        THEN IF value = "check"
             THEN <<[op |-> "checkCheckbox", selector |-> field.selector,
                     value |-> "check"]>>
             ELSE <<>>
        ELSE IF field.type = "select"
        THEN <<[op |-> "selectOption", selector |-> field.selector,
                value |-> value]>>
        ELSE <<[op |-> "fillInput", selector |-> field.selector,
                value |-> value]>>

RECURSIVE fillFields(_, _)
fillFields(fields, email) ==
    IF fields = <<>> THEN <<>>
    ELSE fillField(Head(fields), email) \o fillFields(Tail(fields), email)

\* The first part of performFillFormAction: the fields of the analysis, or
\* the generic fill of the address.
fillFormFields(fields, requiresEmail, email) ==
    IF Len(fields) > 0 THEN fillFields(fields, email)
    ELSE IF requiresEmail /\ Truthy(email)
    THEN <<[op |-> "fillForm", selector |-> "email", value |-> email]>>
    ELSE <<>>

\* formFieldsToFill of up to MaxFields entries; entry k has selector k.
FieldLists ==
    UNION {[1..n -> [type : FieldTypes, value : FieldValues]] :
             n \in 0..MaxFields}

WithSelectors(list) ==
    [k \in 1..Len(list) |->
        [type |-> list[k].type, value |-> list[k].value, selector |-> k]]

\* The address POST /api/unsubscribe passes on: the session's, or none.
CallerEmails == {Undefined, "", "me@example.org"}

FieldsInit ==
    fld \in [pc : {"analysis"}, fields : {WithSelectors(l) : l \in FieldLists},
             requiresEmail : BOOLEAN, email : CallerEmails, calls : {<<>>}]

FieldsIdle ==
    fld = [pc |-> "off", fields |-> <<>>, requiresEmail |-> FALSE,
           email |-> Undefined, calls |-> <<>>]

FFill ==
    /\ fld.pc = "analysis"
    /\ fld' = [fld EXCEPT
                 !.pc = "filled",
                 !.calls = fillFormFields(fld.fields, fld.requiresEmail,
                                          fld.email)]
    /\ UNCHANGED <<batchVars, verifierVars, analyzerVars, classifyVars,
                   syncVars, controllerVars, extractVars, cat, txt>>

\* ------------------------------------------------ findAndClickByText, alone

\* The patterns of a call, and what the page does with each pattern and
\* element type: no visible element, a click that throws, a click followed
\* by a load-state timeout, a click followed by a load.
CallPatterns == SubSeq(ButtonTexts, 1, MaxPatterns)
ProbeOutcomes == {"none", "click_throws", "wait_timeout", "ok"}

ByTextInit ==
    txt \in [pc : {"call"},
                probe : [Range(CallPatterns) \X Range(FormElementTypes)
                           -> ProbeOutcomes],
                ret : {[returned |-> FALSE, clicked |-> <<>>]}]

ByTextIdle ==
    txt = [pc |-> "off",
              probe |-> [pair \in Range(CallPatterns) \X Range(FormElementTypes)
                           |-> "none"],
              ret |-> [returned |-> FALSE, clicked |-> <<>>]]

TCall ==
    /\ txt.pc = "call"
    /\ txt' = [txt EXCEPT
                    !.pc = "returned",
                    !.ret = findAndClickByText(CallPatterns, FormElementTypes,
                                               txt.probe)]
    /\ UNCHANGED <<batchVars, verifierVars, analyzerVars, classifyVars,
                   syncVars, controllerVars, extractVars, cat, fld>>

\* ---------------------------------------------------------- specifications

HelperIdle == ValidationIdle /\ FieldsIdle /\ ByTextIdle

\* bulkUnsubscribe under POST /api/unsubscribe; nothing else runs.
Init ==
    BatchInit /\ VerifierIdle /\ AnalyzerIdle /\ ClassifyIdle /\ SyncIdle
    /\ ControllerIdle /\ ExtractIdle /\ HelperIdle
Spec == Init /\ [][BatchNext]_vars

\* analyzeUnsubscribeResult on every text.
InitVerifier ==
    VerifierInit /\ BatchIdle /\ AnalyzerIdle /\ ClassifyIdle /\ SyncIdle
    /\ ControllerIdle /\ ExtractIdle /\ HelperIdle
SpecVerifier == InitVerifier /\ [][VAnalyze]_vars

\* analyzePageWithAI on every response.
InitAnalyzer ==
    AnalyzerInit /\ BatchIdle /\ VerifierIdle /\ ClassifyIdle /\ SyncIdle
    /\ ControllerIdle /\ ExtractIdle /\ HelperIdle
SpecAnalyzer == InitAnalyzer /\ [][AAnalyze]_vars

\* Runs of processEmailsForUser, one after the other.
InitClassify ==
    ClassifyInit /\ BatchIdle /\ VerifierIdle /\ AnalyzerIdle /\ SyncIdle
    /\ ControllerIdle /\ ExtractIdle /\ HelperIdle
SpecClassify == InitClassify /\ [][ClassifyNext]_vars

\* Runs of processEmailsForUser and of recategorizeEmails, in any order.
SpecRecategorize == InitClassify /\ [][RecategorizeNext]_vars

\* The backfill: processEmailsForUser run again and again with one limit for
\* a user who has categories, over emails that have a subject, while the LLM
\* keeps answering (a summary where one was asked and could be made, JSON
\* where a category was asked) and the database keeps taking the updates.
LlmAnswered ==
    /\ cLast.write # "failed"
    /\ cLast.askedSummary => Truthy(emails[cLast.id].summary)
    /\ cLast.asked => cLast.rawId # "none"

BProcess == CProcess /\ LlmAnswered'

BackfillNext == CStart \/ BProcess \/ CReturn

InitBackfill ==
    /\ InitClassify
    /\ emails \in [EmailIds -> {NewEmail("Sale", TRUE), NewEmail("Sale", FALSE)}]
    /\ categories # {}
    /\ configured

\* Every run that was started is carried on, and a run that returned is
\* followed by another.
SpecBackfill ==
    /\ InitBackfill
    /\ [][BackfillNext]_vars
    /\ WF_vars(CStart) /\ WF_vars(BProcess) /\ WF_vars(CReturn)

\* Runs of syncEmailsForAccount that overlap in any way, and their caller.
InitSync ==
    SyncInit /\ BatchIdle /\ VerifierIdle /\ AnalyzerIdle /\ ClassifyIdle
    /\ ControllerIdle /\ ExtractIdle /\ HelperIdle
SpecSync == InitSync /\ [][SyncNext]_vars

\* launch, navigateTo and close called on one controller in any order.
InitController ==
    ControllerInit /\ VerifierIdle /\ AnalyzerIdle /\ ClassifyIdle /\ SyncIdle
    /\ ExtractIdle /\ HelperIdle
SpecController == InitController /\ [][ControllerNext]_vars

\* processMessage on every message.
InitExtract ==
    ExtractInit /\ BatchIdle /\ VerifierIdle /\ AnalyzerIdle /\ ClassifyIdle
    /\ SyncIdle /\ ControllerIdle /\ HelperIdle
SpecExtract == InitExtract /\ [][XProcess]_vars

\* Nothing but the helpers runs.
OthersIdle ==
    BatchIdle /\ VerifierIdle /\ AnalyzerIdle /\ ClassifyIdle /\ SyncIdle
    /\ ControllerIdle /\ ExtractIdle

\* A category schema on every body.
InitValidation == ValidationInit /\ FieldsIdle /\ ByTextIdle /\ OthersIdle
SpecValidation == InitValidation /\ [][ValidationNext]_vars

\* The field loop of performFillFormAction on every analysis and address.
InitFields == FieldsInit /\ ValidationIdle /\ ByTextIdle /\ OthersIdle
SpecFields == InitFields /\ [][FFill]_vars

\* findAndClickByText on every page.
InitByText == ByTextInit /\ ValidationIdle /\ FieldsIdle /\ OthersIdle
SpecByText == InitByText /\ [][TCall]_vars

\* ------------------------------------------------------------------ claims

\* C1: whichever step of unsubscribe(url) fails or throws (launch,
\* navigation, screenshot, extraction, analysis, action, verification),
\* close() has run when unsubscribe() settles, and when it has resolved the
\* controller holds no browser, no context and no page, and no browser
\* process is open.
C1_CloseOnEveryExit ==
    /\ att.settle # "none" => att.closeRan
    /\ att.settle = "resolved" =>
         ~browser /\ ~context /\ ~page /\ procs = 0

\* A call whose after-launch step threw has resolved with the failure.
C1_Witness ==
    /\ att.settle = "resolved"
    /\ att.failed = "screenshot"
    /\ att.closeRan
    /\ att.ret.success = "false"

\* C2: bulkUnsubscribe returns exactly one outcome per url, in input order;
\* a url whose navigation failed has success false; every outcome is the
\* result of its own unsubscribe() call, which starts on a fresh controller,
\* and no later call changes it.
C2_State ==
    /\ pc = "returned" => Len(results) = Len(urls)
    /\ \A k \in 1..Len(results) :
         /\ k <= Len(urls) /\ results[k].url = urls[k]
         /\ k \in navFailed => results[k].success = "false"
    /\ pc = "launch" => ~browser /\ ~context /\ ~page /\ att = FreshAtt

C2_Step ==
    results' # results =>
        /\ Len(results) = idx - 1
        /\ att.ret.url = urls[idx]
        /\ results' = Append(results, att.ret)

C2_OneOutcomePerUrl == []C2_State /\ [][C2_Step]_vars

\* A returned batch of two whose first navigation failed and whose second
\* url was unsubscribed.
C2_Witness ==
    /\ pc = "returned"
    /\ Len(results) = 2
    /\ 1 \in navFailed
    /\ results[1].success = "false"
    /\ results[2].success = "true"
    /\ results[2].screenshotAfter

\* C3: bulkUnsubscribe never rejects, whatever step fails, a failing launch
\* or close included, and POST /api/unsubscribe never answers a batch with
\* the one opaque failure.
C3_NeverRejects == pc # "rejected" /\ response.kind # "opaque_500"

\* C4: at most one browser is launched and not closed; the launch for url
\* i+1 comes after the close for url i and after the delay between requests.
C4_OneAtATime ==
    /\ procs <= 1
    /\ att.launched /\ ~att.closeRan =>
         /\ closes = idx - 1
         /\ idx > 1 => att.gap >= 1000

\* The second url's browser is up, the first one's is closed.
C4_Witness ==
    /\ idx = 2
    /\ pc = "navigate"
    /\ att.launched
    /\ closes = 1
    /\ procs = 1

\* C5: the heuristic verdict is unsubscribed if a success phrase occurs in
\* the lower-cased text, else already_unsubscribed if an already-done phrase
\* occurs, else error if an error phrase occurs, else unknown; a text with a
\* success phrase and an error phrase is success, unsubscribed.
Occurs(text, patterns) ==
    \E k \in 1..Len(patterns) : Includes(toLowerCase(text), patterns[k])

C5_HeuristicPriority ==
    vPc = "returned" =>
        LET h == vOut.heuristic
        IN  /\ h.status =
                 IF Occurs(vText, successPatterns) THEN "unsubscribed"
                 ELSE IF Occurs(vText, alreadyDonePatterns)
                      THEN "already_unsubscribed"
                 ELSE IF Occurs(vText, errorPatterns) THEN "error"
                 ELSE "unknown"
            /\ h.success =
                 IF h.status \in {"unsubscribed", "already_unsubscribed"}
                 THEN "true" ELSE "false"
            /\ (Occurs(vText, successPatterns) /\ Occurs(vText, errorPatterns)
                  => h.success = "true" /\ h.status = "unsubscribed")

\* A text with an error phrase before a success phrase, found unsubscribed.
C5_Witness ==
    /\ vPc = "returned"
    /\ vText = <<"Link", "expired", "Successfully", "UNSUBSCRIBED">>
    /\ vOut.heuristic.status = "unsubscribed"
    /\ vOut.heuristic.success = "true"

\* C6: the LLM is called if and only if the heuristic status is unknown;
\* any other heuristic verdict is returned unchanged, with no LLM call.
C6_LlmOnlyWhenUnknown ==
    vPc = "returned" =>
        LET h == analyzeUnsubscribeResultWithHeuristics(vText)
        IN  /\ vOut.llmCalls > 0 <=> h.status = "unknown"
            /\ h.status # "unknown" =>
                 /\ vOut.llmCalls = 0
                 /\ vOut.verdict.success = h.success
                 /\ vOut.verdict.status = h.status
                 /\ vOut.verdict.reason = h.reason

\* An error page: the heuristic verdict came back, the LLM was not asked.
C6_Witness ==
    /\ vPc = "returned"
    /\ vOut.heuristic.status = "error"
    /\ vOut.verdict.status = "error"
    /\ vOut.llmCalls = 0

\* C7: when the LLM call fails (transport error, empty response, response
\* that is not JSON), analyzeUnsubscribeResult returns success false, status
\* unknown, the heuristic's inconclusive verdict.
C7_LlmFailureKeepsHeuristic ==
    vPc = "returned" /\ vOut.llmCalls > 0 /\ vResponse \in FailedResponses =>
        /\ vOut.verdict.success = "false"
        /\ vOut.verdict.status = "unknown"
        /\ vOut.verdict.reason = "Could not verify unsubscribe result"

\* The LLM answered in prose; the verdict is the inconclusive one.
C7_Witness ==
    /\ vPc = "returned"
    /\ vOut.llmCalls = 1
    /\ vResponse = Stream(<<TextChunk(<<Prose>>)>>)
    /\ vOut.verdict.status = "unknown"

\* C8: an outcome that rests on an LLM verdict has success true only if the
\* verdict's status is unsubscribed or already_unsubscribed.
C8_SuccessOnlyOnPositiveStatus ==
    att.llmCalls > 0 /\ att.ret # NoRet /\ Truthy(att.ret.success) =>
        Prop(att.verdict, "status") \in
            {"unsubscribed", "already_unsubscribed"}

\* C9: when the page-analysis LLM call throws or its joined text cannot be
\* parsed, analyzePageWithAI returns exactly the default plan
\* {hasUnsubscribeButton: true, hasForm: false, requiresEmail: false,
\* nextAction: 'click_button'}.
C9_AnalysisFallsBackToDefault ==
    aPc = "returned" /\ aResponse \in FailedResponses =>
        aPlan = [type |-> "object", hasUnsubscribeButton |-> "true",
                 hasForm |-> "false", requiresEmail |-> "false",
                 nextAction |-> "click_button"]

\* The call threw and the default plan came back.
C9_Witness ==
    /\ aPc = "returned"
    /\ aResponse = CallThrows
    /\ aPlan.nextAction = "click_button"
    /\ DOMAIN aPlan = {"type", "hasUnsubscribeButton", "hasForm",
                       "requiresEmail", "nextAction"}

\* C10: processEmailsForUser writes a categorization exactly when its
\* categoryId is not null and its confidence is at least 0.5; the row then
\* holds both values, and below 0.5 the row's categoryId and aiConfidence
\* stay unset.
C10_ConfidenceGate ==
    cLast.asked =>
        LET row == emails[cLast.id]
            pass == cLast.result.categoryId # "null"
                    /\ cLast.result.confidence >= 50
        IN  /\ cLast.accepted <=> pass
            /\ pass /\ cLast.write = "ok" =>
                 /\ row.categoryId = cLast.result.categoryId
                 /\ row.hasConfidence
                 /\ row.aiConfidence = cLast.result.confidence
            /\ ~pass =>
                 /\ row.categoryId = "null"
                 /\ ~row.hasConfidence

\* An answer of exactly 0.5 for a known category has been written.
C10_Witness ==
    /\ cLast.asked
    /\ cLast.result = [categoryId |-> "c1", confidence |-> 50]
    /\ cLast.write = "ok"
    /\ emails[cLast.id].categoryId = "c1"
    /\ emails[cLast.id].aiConfidence = 50

\* C11: after any sequence of processEmailsForUser and recategorizeEmails
\* runs, every email that carries a categoryId has an aiConfidence of at
\* least 0.5.
C11_StoredCategoryMeetsThreshold ==
    \A k \in EmailIds :
        emails[k].categoryId # "null" =>
            emails[k].hasConfidence /\ emails[k].aiConfidence >= 50

\* C12: a categoryId of the LLM that is no id of the candidate categories
\* (missing ones included) comes back as {categoryId: null, confidence: 0},
\* and every email's stored categoryId is null or one of the categories.
C12_UnknownCategoryRejected ==
    /\ cLast.asked /\ cLast.rawId \notin categories \cup {"null"} =>
          cLast.result = [categoryId |-> "null", confidence |-> 0]
    /\ cLast.asked => cLast.result.categoryId \in categories \cup {"null"}
    /\ \A k \in EmailIds : emails[k].categoryId \in categories \cup {"null"}

\* The LLM named a category the user does not have; the email was left
\* without a category.
C12_Witness ==
    /\ cLast.asked
    /\ cLast.rawId = "zz"
    /\ cLast.result = [categoryId |-> "null", confidence |-> 0]
    /\ ~cLast.accepted
    /\ emails[cLast.id].categoryId = "null"

\* C13: a run of syncEmailsForAccount whose listed message ids are all
\* stored already fetches no message, inserts no row, archives nothing and
\* reports stored: 0.
C13_ResyncStoresNothing ==
    \A r \in Runs :
        LET run == sync[r]
        IN  run.pc \notin {"off", "start", "listed"} /\ run.ids # {}
            /\ run.ids \subseteq run.existing =>
                /\ run.pc = "done"
                /\ run.got = {} /\ run.inserted = 0 /\ run.archivedIds = {}
                /\ run.result.fetched = Cardinality(run.ids)
                /\ run.result.stored = 0 /\ run.result.archived = 0
                /\ run.result.errors = <<>>

\* The second run found both messages of the mailbox stored by the first.
C13_Witness ==
    /\ sync["user"].result.stored = MaxMessages
    /\ sync["cron"].pc = "done"
    /\ sync["cron"].ids = MessageIds("a1")
    /\ sync["cron"].existing = sync["cron"].ids
    /\ sync["cron"].result.stored = 0

\* C14: however runs of syncEmailsForAccount that list the same messages
\* interleave, no gmailId is on two Email rows and no run fails on the
\* duplicate insert.
C14_NoDuplicateRows ==
    /\ \A i \in DOMAIN store : store[i] <= 1
    /\ \A r \in Runs :
         /\ "duplicate" \notin sync[r].faults
         /\ sync[r].pc # "threw"

\* Both runs fetched the same new messages; the one that inserted second
\* had all its rows skipped and went on without an error.
C14_Witness ==
    /\ sync["user"].account = sync["cron"].account
    /\ sync["user"].toCreate # {}
    /\ sync["user"].toCreate = sync["cron"].toCreate
    /\ sync["user"].inserted = Cardinality(sync["user"].toCreate)
    /\ sync["cron"].pc = "done"
    /\ sync["cron"].inserted = 0
    /\ sync["cron"].result.errors = <<>>

\* C15: syncEmailsForAccount never throws; a missing account or token, a
\* failed refresh and a provider error end up in the errors of that
\* account's result, and the caller hands back a result for every account,
\* each with its own counts and without the errors of another account.
C15_SyncNeverThrows ==
    /\ sOut.kind # "rejected"
    /\ \A r \in Runs :
         LET run == sync[r]
         IN  /\ run.pc # "threw"
             /\ run.pc = "done" =>
                  /\ (run.faults # {}) <=> (run.result.errors # <<>>)
                  /\ accounts[run.account] = "missing" =>
                       run.result.errors = <<"Failed to create Gmail client">>
                  /\ run.result.accountId = run.account
                  /\ run.result.fetched = Cardinality(run.ids)
                  /\ run.result.stored = Cardinality(run.toCreate)
             /\ sOut.kind = "results" =>
                  /\ sOut.results[r].accountId = run.account
                  /\ sOut.results[r].fetched = run.result.fetched
                  /\ sOut.results[r].stored = run.result.stored
                  /\ sOut.results[r].archived = run.result.archived
                  /\ run.faults = {} =>
                       sOut.results[r].errors
                           \in {<<>>, <<"AI processing failed">>}

\* One account has no usable token, the provider failed another run or
\* not; the caller returned both results, the sibling's with its counts.
C15_Witness ==
    /\ sOut.kind = "results"
    /\ sync["user"].account # sync["cron"].account
    /\ accounts[sync["user"].account] = "missing"
    /\ sOut.results["user"].errors = <<"Failed to create Gmail client">>
    /\ sOut.results["cron"].stored > 0
    /\ sOut.results["cron"].errors = <<>>

\* C16: navigateTo(url) returns a boolean, false when the target is
\* unreachable, answers with a status that is not OK or gives no response,
\* and it throws 'Browser not launched' exactly when the controller holds no
\* page: before a launch() has resolved or after a close() has resolved.
C16_NavigateToReturnsBoolean ==
    ctl.last.op = "navigateTo" =>
        /\ ctl.last.outcome \in {"true", "false", "throws"}
        /\ ctl.last.outcome = "throws" <=> ~ctl.live
        /\ ctl.launches = 0 => ctl.last.outcome = "throws"
        /\ ctl.live =>
             ctl.last.outcome = IF ctl.last.target = "ok" THEN "true"
                                ELSE "false"

\* A launched controller whose target could not be reached: false came back.
C16_Witness ==
    /\ ctl.live
    /\ ctl.last = [op |-> "navigateTo", target |-> "unreachable",
                   outcome |-> "false"]

\* C16 as stated: navigateTo throws only on a controller that was never
\* launched, and returns the boolean otherwise.
C16_ThrowsOnlyIfNeverLaunched ==
    ctl.last.op = "navigateTo" =>
        /\ ctl.last.outcome = "throws" => ctl.launches = 0
        /\ ctl.last.outcome # "throws" =>
             ctl.last.outcome = IF ctl.last.target = "ok" THEN "true"
                                ELSE "false"

\* C17: when the click or submit succeeded and the navigation wait that
\* follows it timed out, the operation is not failed: the attempt goes on to
\* read the text and verify, and does not end with the catch block's error
\* outcome.
C17_NavigationTimeoutTolerated ==
    att.clicked /\ att.ret # NoRet =>
        /\ att.failed # "navigation-wait"
        /\ att.ret.message # "Timeout 3000ms exceeded"

\* C18: a step that throws after the before-screenshot was taken (extraction,
\* action, navigation wait, verification, after-screenshot) gives an outcome
\* with success false that carries the before screenshot.
C18_FailureKeepsArtifacts ==
    att.before /\ att.failed # "none" /\ att.ret # NoRet =>
        /\ att.ret.success = "false"
        /\ att.ret.screenshotBefore

\* C19: the text 'Our system could not find your subscription' alone is
\* found already done by the heuristic: success true, status
\* already_unsubscribed, and the LLM is not called.
C19_NotFoundIsAlreadyDone ==
    /\ vPc = "returned"
    /\ vText = <<"Our", "system", "could", "not", "find", "your",
                 "subscription">>
    => /\ vOut.llmCalls = 0
       /\ vOut.heuristic.status = "already_unsubscribed"
       /\ Prop(vOut.verdict, "success") = "true"
       /\ Prop(vOut.verdict, "status") = "already_unsubscribed"

\* C20: the unsubscribe link stored for an ingested message is the http(s)
\* URL of the List-Unsubscribe header, else the href the HTML patterns find,
\* else what the LLM extraction returns, and the LLM extraction is invoked
\* exactly when header and HTML gave nothing.
C20_LinkPriority ==
    ext.pc = "row" =>
        LET byRegex == extractUnsubscribeLink(ext.header, ext.html)
            byLlm == extractUnsubscribeLinkWithAI(ext.configured, ext.html,
                                                  ext.hasText, ext.first,
                                                  ext.second)
        IN  /\ ext.unsubscribeLink =
                 IF byRegex # NoLink THEN byRegex ELSE byLlm.link
            /\ ext.llmCalls = IF byRegex # NoLink THEN 0 ELSE byLlm.calls

\* C21: a message that a run stored and failed to archive is archived by a
\* later run: once a run that was entered after that run had returned has
\* itself returned without an error, no message the first run stored is left
\* in the inbox.
C21_ArchiveRetried ==
    \A r \in Runs, q \in Runs :
        /\ r # q
        /\ sync[r].account = sync[q].account
        /\ sync[r].pc = "done" /\ "archive" \in sync[r].faults
        /\ sync[q].later /\ sync[q].pc = "done" /\ sync[q].faults = {}
        => \A i \in sync[r].toCreate :
               store[i] > 0 => i \notin mailbox[sync[r].account]

\* C28: the stored count a run reports is the number of rows that run
\* inserted, and when both runs have returned the reported counts add up to
\* the number of rows in the store.
C28_StoredCountsRowsInserted ==
    /\ \A r \in Runs :
         sync[r].pc = "done" => sync[r].result.stored = sync[r].inserted
    /\ (\A r \in Runs : sync[r].pc = "done") =>
         sync["user"].result.stored + sync["cron"].result.stored
             = Cardinality({i \in DOMAIN store : store[i] > 0})

C24_EveryClickIsVerified ==
    att.clicked /\ att.ret # NoRet /\ att.failed = "none" =>
        /\ att.waited
        /\ att.settled
        /\ att.verdict.type # "none"
        /\ att.ret.success = Prop(att.verdict, "success")

\* C27: whatever the LLM answers (nothing, text that is not JSON, JSON that
\* is not a plan), analyzePageWithAI returns an ActionPlan object whose
\* nextAction is click_button, fill_form, already_done or unknown.
C27_AnalysisIsAlwaysAPlan ==
    aPc = "returned" =>
        /\ aPlan.type = "object"
        /\ Prop(aPlan, "nextAction")
               \in {"click_button", "fill_form", "already_done", "unknown"}

\* C29: a pass of the loop of processEmailsForUser never overwrites. For an
\* email that has a summary it makes no summarization call and leaves the
\* summary as it is; for an email that has a categoryId it makes no
\* categorization call and leaves categoryId and aiConfidence as they are;
\* when the user has no categories it makes no categorization call and sets
\* no categoryId.
C29_NeverOverwrites ==
    [][cPc = "loop" =>
         \A k \in EmailIds :
            /\ Truthy(emails[k].summary) =>
                  /\ ~(cLast'.id = k /\ cLast'.askedSummary)
                  /\ emails'[k].summary = emails[k].summary
            /\ Truthy(emails[k].categoryId) =>
                  /\ ~(cLast'.id = k /\ cLast'.asked)
                  /\ emails'[k].categoryId = emails[k].categoryId
                  /\ emails'[k].hasConfidence = emails[k].hasConfidence
                  /\ emails'[k].aiConfidence = emails[k].aiConfidence
            /\ categories = {} =>
                  /\ ~cLast'.asked
                  /\ emails'[k].categoryId = emails[k].categoryId]_vars

\* A pass over an email that had a summary and no category: only the
\* categorization was asked, and the summary is still there.
C29_Witness ==
    /\ cPc \in {"loop", "done"}
    /\ cLast.id \in EmailIds
    /\ ~cLast.askedSummary
    /\ cLast.asked
    /\ Truthy(emails[cLast.id].summary)

\* C30: when processEmailsForUser is run again and again with one limit
\* and the LLM keeps answering, every stored email that lacks a summary is
\* summarized in the end, also while newer emails that fill the limit stay
\* uncategorized and are selected by every run.
C30_BackfillCompletes ==
    <>(\A k \in EmailIds : Truthy(emails[k].summary))

\* C22: the category schema accepts a name of 50 characters and rejects one
\* of 51 and an empty one, whichever schema gets it; a color is accepted only
\* if it is '#' and six hex digits, and the create schema rejects a body
\* without a color; the update schema accepts no body without a cuid id.
C22_CategoryValidation ==
    cat.pc = "parsed" =>
        LET input == cat.input
            name == input.name
            color == input.color
        IN  /\ name.kind = "string" /\ Len(name.chars) \in {0, 51}
                 => ~cat.out.success
            /\ cat.schema = "create" /\ name = Str(Repeat("a", 50))
                 /\ color = Str(<<"#", "1", "a", "2", "b", "3", "c">>)
                 /\ input.description = Absent
                 => cat.out.success
            /\ cat.out.success /\ color.kind # "undefined"
                 => /\ color.kind = "string"
                    /\ Len(color.chars) = 7
                    /\ color.chars[1] = "#"
                    /\ \A k \in 2..7 : color.chars[k] \in HexDigits
            /\ color = Str(<<"#", "f", "f", "f">>) => ~cat.out.success
            /\ cat.schema = "create" /\ color.kind = "undefined"
                 => ~cat.out.success
            /\ cat.schema = "update" /\ input.id.kind = "undefined"
                 => ~cat.out.success

\* The create schema took a name of 50 characters with the color '#1a2b3c'.
C22_Witness ==
    /\ cat.pc = "parsed"
    /\ cat.schema = "create"
    /\ cat.input.name = Str(Repeat("a", 50))
    /\ cat.input.color = Str(<<"#", "1", "a", "2", "b", "3", "c">>)
    /\ cat.out.success

\* C25: in fill_form no call on the browser fills or selects the literal
\* text '{{EMAIL}}': the placeholder of a field was replaced by the address
\* of the caller before the field was filled.
C25_PlaceholderNeverFilled ==
    fld.pc = "filled" =>
        \A k \in 1..Len(fld.calls) : fld.calls[k].value # EmailPlaceholder

\* C26: a call of findAndClickByText clicks at most one element, and it
\* returns true exactly if it clicked one.
C26_ClicksOnceAndSaysSo ==
    txt.pc = "returned" =>
        /\ Len(txt.ret.clicked) <= 1
        /\ txt.ret.returned <=> Len(txt.ret.clicked) = 1

====
